---- MODULE Spec2Model ----
(***************************************************************************)
(* Snapshot reconciliation worker (sharevia-snapshot-service).             *)
(*                                                                         *)
(* The model covers the polling cycle of snapshot_service.py, the provider *)
(* client of brightdata_client.py and the store client of                  *)
(* supabase_client.py.  JSON values are tagged records, so that Python's   *)
(* truthiness, dict.get and `or` chains are computed as the code computes  *)
(* them.                                                                   *)
(***************************************************************************)
EXTENDS Integers, Sequences, FiniteSets, TLC

VARIABLES
    store,       \* bookmarks table: id -> row
    pc,          \* per worker: "idle" | "loop" | "fetched"
    bookmarks,   \* per worker: rows returned by the listing of this cycle
    idx,         \* per worker: position of the for loop in bookmarks
    response,    \* per worker: what download_snapshot_results returned
    iteration,   \* per worker: number of cycles started
    calls,       \* per worker: outbound calls of the current cycle, in order
    cycleRet,    \* per worker: how the last poll_snapshots_once ended
    last,        \* the last item handled by process_snapshot_for_bookmark
    cleared,     \* ids whose handle a successful update has cleared
    snap,        \* the store as it was when the latest cycle started
    allPending,  \* every provider answer since then was 202
    attached,    \* number of handles attached by the external writer
    outcomes,    \* id -> how its processing ended in the latest cycle
    prev,        \* id -> how its processing ended in the cycle before
    stable,      \* the provider and the store have come to answer well
    data,        \* a provider payload handed to the functions directly
    extraction,  \* the last direct call of process_result and what it gave
    built,       \* the last update map built from data, and for which URL
    sched        \* the scheduler loop: its mode, settings, position and clock

vars == <<store, pc, bookmarks, idx, response, iteration, calls, cycleRet,
          last, cleared, snap, allPending, attached, outcomes, prev,
          stable, data, extraction, built, sched>>

---------------------------------------------------------------------------
(* Bounds *)

MaxCycles == 2

MaxAttach == 1

MaxCyclesMW == 1

\* the largest max_iterations of a continuous run
MaxIterations == 2

\* the largest ceiling MAX_RUNTIME_SECONDS, in ticks
MaxRuntime == 3

\* the largest poll interval, in ticks
MaxInterval == 2

\* the longest time one cycle takes, in ticks
MaxElapsed == 2

---------------------------------------------------------------------------
(* JSON / Python values *)

JNull == [t |-> "null"]

Str(s) == [t |-> "str", s |-> s]

List(items) == [t |-> "list", items |-> items]

Obj(o) == [t |-> "obj", o |-> o]

\* str(x) of a dict or list: some non-empty text determined by x
PyStr(v) == IF v.t = "str" THEN v ELSE [t |-> "repr", of |-> v]

\* a raised exception, as the outcome of an expression
Raise(e) == [t |-> "raise", exc |-> e]

IsRaise(v) == v.t = "raise"

\* bool(x)
Truthy(v) ==
    CASE v.t = "null" -> FALSE
      [] v.t = "str" -> v.s # ""
      [] v.t = "list" -> Len(v.items) > 0
      [] v.t = "obj" -> DOMAIN v.o # {}
      [] v.t = "num" -> v.n # 0
      [] OTHER -> TRUE

\* a or b
PyOr(a, b) == IF Truthy(a) THEN a ELSE b

\* d.get(k)
Get(o, k) == IF k \in DOMAIN o THEN o[k] ELSE JNull

\* d.get(k, default)
GetD(o, k, d) == IF k \in DOMAIN o THEN o[k] ELSE d

\* x[0] for a non-empty x
Index0(v) ==
    CASE v.t = "list" -> v.items[1]
      [] v.t = "str" -> [t |-> "char0", of |-> v.s]
      [] v.t = "obj" -> Raise("KeyError")
      [] OTHER -> Raise("TypeError")

\* len(x) can be taken (x is a sized value)
Sized(v) == v.t \in {"str", "repr", "char0", "list", "obj"}

\* x[:100] can be taken (x is a sequence value)
Sliceable(v) == v.t \in {"str", "repr", "char0", "list"}

---------------------------------------------------------------------------
(* brightdata_client.py *)

\* "error" in item
HasError(item) ==
    CASE item.t = "obj" -> "error" \in DOMAIN item.o
      [] item.t = "list" -> \E i \in 1..Len(item.items) : item.items[i] = Str("error")
      [] item.t = "str" -> item.s = "error"
      [] OTHER -> FALSE

\* the membership test itself raises for a value that is not a container
ErrorTestRaises(item) == item.t \in {"null", "num"}

RECURSIVE ScanForErrors(_, _)
\* the for loop of check_download_for_errors, from position i on
ScanForErrors(items, i) ==
    IF i > Len(items) THEN "false"
    ELSE IF ErrorTestRaises(items[i]) THEN "raise"
    ELSE IF HasError(items[i]) THEN "true"
    ELSE ScanForErrors(items, i + 1)

\* "true" | "false" | "raise" (TypeError)
check_download_for_errors(response_data) ==
    IF response_data.t = "list" /\ Len(response_data.items) > 0
    THEN ScanForErrors(response_data.items, 1)
    ELSE "false"

\* images[0] if images and len(images) > 0 else None
FirstOrNone(images) ==
    IF ~Truthy(images) THEN JNull
    ELSE IF ~Sized(images) THEN Raise("TypeError")
    ELSE Index0(images)

\* the dict returned for a dict input, unless taking the image raised
LinkedInRecord(content, preview_image_url, social_profile_name) ==
    IF IsRaise(preview_image_url) THEN preview_image_url
    ELSE [content |-> content,
          preview_image_url |-> preview_image_url,
          social_profile_name |-> social_profile_name]

\* a variant that prefers the headline to the post text
extract_linkedin_content_HeadlineFirst(content_data) ==
    IF content_data.t = "obj"
    THEN LinkedInRecord(
             PyOr(PyOr(PyOr(PyOr(Get(content_data.o, "headline"),
                                 Get(content_data.o, "post_text")),
                            Get(content_data.o, "text")),
                       Get(content_data.o, "title")),
                  PyStr(content_data)),
             FirstOrNone(GetD(content_data.o, "images", List(<<>>))),
             Get(content_data.o, "user_id"))
    ELSE [content |-> PyStr(content_data),
          preview_image_url |-> JNull,
          social_profile_name |-> JNull]

extract_linkedin_content(content_data) ==
    IF content_data.t = "obj"
    THEN LinkedInRecord(
             PyOr(PyOr(PyOr(PyOr(Get(content_data.o, "post_text"),
                                 Get(content_data.o, "text")),
                            Get(content_data.o, "title")),
                       Get(content_data.o, "headline")),
                  PyStr(content_data)),
             FirstOrNone(GetD(content_data.o, "images", List(<<>>))),
             Get(content_data.o, "user_id"))
    ELSE [content |-> PyStr(content_data),
          preview_image_url |-> JNull,
          social_profile_name |-> JNull]

\* video_obj.get("video_url") if isinstance(video_obj, dict) else video_obj
VideoUrl(video_obj) ==
    IF IsRaise(video_obj) THEN video_obj
    ELSE IF video_obj.t = "obj" THEN Get(video_obj.o, "video_url")
    ELSE video_obj

\* a variant that takes the video whether or not a photo was found
PreviewVideo_Regardless(preview_image_url, videos) ==
    IF ~Truthy(videos) THEN JNull
    ELSE IF ~Sized(videos) THEN Raise("TypeError")
    ELSE VideoUrl(Index0(videos))

\* the `if not preview_image_url:` block
PreviewVideo(preview_image_url, videos) ==
    IF Truthy(preview_image_url) THEN JNull
    ELSE IF ~Truthy(videos) THEN JNull
    ELSE IF ~Sized(videos) THEN Raise("TypeError")
    ELSE VideoUrl(Index0(videos))

\* the dict returned for a dict input, unless taking image or video raised
XRecord(content, preview_image_url, preview_video_url, social_profile_name) ==
    IF IsRaise(preview_image_url) THEN preview_image_url
    ELSE IF IsRaise(preview_video_url) THEN preview_video_url
    ELSE [content |-> content,
          preview_image_url |-> preview_image_url,
          preview_video_url |-> preview_video_url,
          social_profile_name |-> social_profile_name]

\* a variant that prefers text to description
XWithImage_TextFirst(content_data, preview_image_url) ==
    XRecord(PyOr(PyOr(PyOr(Get(content_data.o, "text"),
                           Get(content_data.o, "description")),
                      Get(content_data.o, "content")),
                 PyStr(content_data)),
            preview_image_url,
            PreviewVideo(preview_image_url,
                         GetD(content_data.o, "videos", List(<<>>))),
            Get(content_data.o, "user_posted"))

\* the body of extract_x_content once the preview image is known
XWithImage(content_data, preview_image_url) ==
    XRecord(PyOr(PyOr(PyOr(Get(content_data.o, "description"),
                           Get(content_data.o, "text")),
                      Get(content_data.o, "content")),
                 PyStr(content_data)),
            preview_image_url,
            PreviewVideo(preview_image_url,
                         GetD(content_data.o, "videos", List(<<>>))),
            Get(content_data.o, "user_posted"))

extract_x_content(content_data) ==
    IF content_data.t = "obj"
    THEN XWithImage(content_data,
                    FirstOrNone(GetD(content_data.o, "photos", List(<<>>))))
    ELSE [content |-> PyStr(content_data),
          preview_image_url |-> JNull,
          preview_video_url |-> JNull,
          social_profile_name |-> JNull]

---------------------------------------------------------------------------
(* snapshot_service.py: process_result *)

\* a record returned by an extractor (as opposed to a raised exception)
IsProcessed(p) == "content" \in DOMAIN p

\* processed.get(k)
PGet(processed, k) == IF k \in DOMAIN processed THEN processed[k] ELSE JNull

\* the log line takes len(processed.get('content', '')), then return processed
LogProcessed(processed) ==
    IF ~IsProcessed(processed) THEN processed
    ELSE IF ~Sized(processed.content) THEN Raise("TypeError")
    ELSE processed

\* a variant that hands every tag but "linkedin" to the X extractor
process_result_UnknownAsX(result_data, service_name) ==
    IF service_name = "linkedin"
    THEN LogProcessed(extract_linkedin_content(result_data))
    ELSE LogProcessed(extract_x_content(result_data))

process_result(result_data, service_name) ==
    IF service_name = "x" THEN LogProcessed(extract_x_content(result_data))
    ELSE IF service_name = "linkedin"
         THEN LogProcessed(extract_linkedin_content(result_data))
    ELSE [content |-> Str(""),
          preview_image_url |-> JNull,
          preview_video_url |-> JNull,
          social_profile_name |-> JNull]

---------------------------------------------------------------------------
(* snapshot_service.py: process_snapshot_for_bookmark, the update it builds *)

\* "linkedin.com" in url; a URL is the sequence of its parts
UrlContains(url, marker) == \E i \in 1..Len(url) : url[i] = marker

\* a variant that derives a third tag from the host
ServiceName_ByHost(url) ==
    IF UrlContains(url, "linkedin.com") THEN "linkedin"
    ELSE IF UrlContains(url, "instagram.com") THEN "instagram"
    ELSE "x"

\* service_name = "linkedin" if "linkedin.com" in url else "x"
ServiceName(url) == IF UrlContains(url, "linkedin.com") THEN "linkedin" ELSE "x"

\* updates[k] = v
SetKey(updates, k, v) ==
    [x \in DOMAIN updates \cup {k} |-> IF x = k THEN v ELSE updates[x]]

\* an update map (as opposed to a raised exception)
IsPayload(u) == "exc" \notin DOMAIN u

\* a variant that submits the scrape again and stores the new handle
InitialUpdates_NewHandle == [snapshot_id |-> Str("h3")]

\* updates = {}; updates["snapshot_id"] = None
InitialUpdates == [snapshot_id |-> JNull]

RECURSIVE ErrorLoop(_, _, _)
\* for item in results: if "error" in item: updates["scrape_error"] = item["error"]
ErrorLoop(items, i, updates) ==
    IF i > Len(items) THEN updates
    ELSE IF ErrorTestRaises(items[i]) THEN Raise("TypeError")
    ELSE IF ~HasError(items[i]) THEN ErrorLoop(items, i + 1, updates)
    ELSE IF items[i].t # "obj" THEN Raise("TypeError")
    ELSE ErrorLoop(items, i + 1, SetKey(updates, "scrape_error", items[i].o.error))

\* a variant that stores a description beside the error
ErrorUpdates_Described(results) ==
    IF IsPayload(ErrorLoop(results.items, 1, InitialUpdates))
    THEN SetKey(ErrorLoop(results.items, 1, InitialUpdates),
                "description", Str("d"))
    ELSE ErrorLoop(results.items, 1, InitialUpdates)

\* a variant that keeps the message of the first erroring element
ErrorUpdates_First(results) ==
    SetKey(InitialUpdates, "scrape_error",
           results.items[CHOOSE i \in 1..Len(results.items) :
                            /\ HasError(results.items[i])
                            /\ \A j \in 1..(i - 1) :
                                  ~HasError(results.items[j])].o.error)

\* a variant that clears the handle without recording the error
ErrorUpdates_Unrecorded(results) == InitialUpdates

\* the branch taken when check_download_for_errors found an error
ErrorUpdates(results) == ErrorLoop(results.items, 1, InitialUpdates)

\* a variant that sends every extracted value that is not None
AddIfPresent_NotNone(updates, processed, k, key) ==
    IF PGet(processed, k) # JNull THEN SetKey(updates, key, processed[k])
    ELSE updates

\* if processed.get(k): updates[key] = processed[k]
AddIfPresent(updates, processed, k, key) ==
    IF Truthy(PGet(processed, k)) THEN SetKey(updates, key, processed[k])
    ELSE updates

\* the four `if processed.get(...)` statements
ContentUpdates(processed, updates) ==
    AddIfPresent(
        AddIfPresent(
            AddIfPresent(
                AddIfPresent(updates, processed, "content", "description"),
                processed, "preview_image_url", "preview_image_url"),
            processed, "preview_video_url", "preview_video_url"),
        processed, "social_profile_name", "social_profile_name")

\* after process_result: the debug line takes processed.get('content', '')[:100],
\* then the update map is filled
ReadyUpdates(processed) ==
    IF ~IsProcessed(processed) THEN processed
    ELSE IF ~Sliceable(PGet(processed, "content")) THEN Raise("TypeError")
    ELSE ContentUpdates(processed, InitialUpdates)

\* a variant that takes the last element of the array
FirstResult_Last(results) ==
    IF results.t = "list" THEN results.items[Len(results.items)] ELSE results

\* result_data = results[0] if isinstance(results, list) else results
FirstResult(results) ==
    IF results.t = "list" THEN results.items[1] ELSE results

\* the branches on what check_download_for_errors returned
UpdatesAfterCheck(results, url, chk) ==
    IF chk = "raise" THEN Raise("TypeError")
    ELSE IF chk = "true" THEN ErrorUpdates(results)
    ELSE IF results.t = "list" /\ Len(results.items) = 0 THEN Raise("IndexError")
    ELSE ReadyUpdates(process_result(FirstResult(results), ServiceName(url)))

\* the 200 branch up to the call of update_bookmark: the update map, or the
\* exception that leaves the function before the call
BuildUpdates(body, url) ==
    IF body.t = "invalid" THEN Raise("JSONDecodeError")
    ELSE UpdatesAfterCheck(body, url, check_download_for_errors(body))

\* the provider answered 202: the snapshot is still being processed
IsPending(r) == r.kind = "http" /\ r.status = 202

\* bool(response): a requests.Response is true when its status is below 400
ResponseTruthy(r) == r.kind = "http" /\ r.status < 400

\* the update to send, or the exception raised
ToOutcome(u) ==
    IF IsPayload(u) THEN [do |-> "update", updates |-> u]
    ELSE [do |-> "raise", exc |-> u.exc]

\* the 200 branch
Outcome200(r, url) == ToOutcome(BuildUpdates(r.body, url))

\* a variant that puts off every result to a later cycle
Outcome_ReadyDeferred(r, url) ==
    IF r.kind = "raise" THEN [do |-> "raise", exc |-> "Exception"]
    ELSE IF ~ResponseTruthy(r) THEN [do |-> "raise", exc |-> "UnboundLocalError"]
    ELSE IF r.status \in {200, 202} THEN [do |-> "none"]
    ELSE [do |-> "raise", exc |-> "UnboundLocalError"]

\* a variant that treats a 202 answer as a finished snapshot
Outcome_PendingCleared(r, url) ==
    IF r.kind = "raise" THEN [do |-> "raise", exc |-> "Exception"]
    ELSE IF ~ResponseTruthy(r) THEN [do |-> "raise", exc |-> "UnboundLocalError"]
    ELSE IF r.status = 202 THEN [do |-> "update", updates |-> InitialUpdates]
    ELSE IF r.status = 200 THEN Outcome200(r, url)
    ELSE [do |-> "raise", exc |-> "UnboundLocalError"]

\* a variant that notes on the bookmark that the snapshot is still processing
Outcome_PendingRecorded(r, url) ==
    IF r.kind = "raise" THEN [do |-> "raise", exc |-> "Exception"]
    ELSE IF ~ResponseTruthy(r) THEN [do |-> "raise", exc |-> "UnboundLocalError"]
    ELSE IF r.status = 202
         THEN [do |-> "update", updates |-> [scrape_error |-> Str("processing")]]
    ELSE IF r.status = 200 THEN Outcome200(r, url)
    ELSE [do |-> "raise", exc |-> "UnboundLocalError"]

\* a variant that gives up on a failed download and clears the handle
Outcome_TransportCleared(r, url) ==
    IF r.kind = "raise" THEN [do |-> "raise", exc |-> "Exception"]
    ELSE IF ~ResponseTruthy(r) THEN [do |-> "update", updates |-> InitialUpdates]
    ELSE IF r.status = 202 THEN [do |-> "none"]
    ELSE IF r.status = 200 THEN Outcome200(r, url)
    ELSE [do |-> "update", updates |-> InitialUpdates]

\* what process_snapshot_for_bookmark does with the response before any
\* store call: "none" (return None), "update" (call update_bookmark with
\* .updates) or "raise" (.exc, the unbound `result` included)
Outcome(r, url) ==
    IF r.kind = "raise" THEN [do |-> "raise", exc |-> "Exception"]
    ELSE IF ~ResponseTruthy(r) THEN [do |-> "raise", exc |-> "UnboundLocalError"]
    ELSE IF r.status = 202 THEN [do |-> "none"]
    ELSE IF r.status = 200 THEN Outcome200(r, url)
    ELSE [do |-> "raise", exc |-> "UnboundLocalError"]

---------------------------------------------------------------------------
(* supabase_client.py *)

\* the table holds a row in this place: every bookmark has a URL, and the
\* place of a bookmark that was deleted holds none
Present(row) == row.url # JNull

\* the row filter of the PATCH request: ?id=eq.{resource_id}
PatchFilter(id, row, bookmark_id) == Present(row) /\ id = bookmark_id

\* a variant that writes the content first and leaves the handle to a second
\* request
Patch_ContentFirst(rows, bookmark_id, updates) ==
    [id \in DOMAIN rows |->
        IF PatchFilter(id, rows[id], bookmark_id)
        THEN [k \in DOMAIN rows[id] |->
                 IF k \in DOMAIN updates /\ k # "snapshot_id"
                 THEN updates[k] ELSE rows[id][k]]
        ELSE rows[id]]

\* PATCH with return=representation: matching rows take the payload's keys
Patch(rows, bookmark_id, updates) ==
    [id \in DOMAIN rows |->
        IF PatchFilter(id, rows[id], bookmark_id)
        THEN [k \in DOMAIN rows[id] |->
                 IF k \in DOMAIN updates THEN updates[k] ELSE rows[id][k]]
        ELSE rows[id]]

\* a variant of the listing without its filter
ListFilter_All(row) == TRUE

\* the row filter of the listing: snapshot_id=not.is.null
ListFilter(row) == row.snapshot_id # JNull

\* select=id,url,snapshot_id
Selected(id, row) == [id |-> id, url |-> row.url, snapshot_id |-> row.snapshot_id]

\* a variant whose PATCH asks for no representation: the body that comes back
\* is empty whether a row was updated or not
Matched_NoRepresentation(rows, bookmark_id) == FALSE

\* update_bookmark returns result[0] if result else None
Matched(rows, bookmark_id) ==
    \E id \in DOMAIN rows : PatchFilter(id, rows[id], bookmark_id)

---------------------------------------------------------------------------
(* The data of the model *)

Workers == {"w1", "w2"}

BookmarkIds == {"b1", "b2"}

XUrl == <<"https://", "x.com", "/test/status/1">>

LinkedInUrl == <<"https://", "www.", "linkedin.com", "/posts/2">>

Urls == {XUrl, LinkedInUrl}

\* the handle an external system attached to a bookmark when it created it
FirstHandle(id) == IF id = "b1" THEN Str("h1") ELSE Str("h2")

\* a handle attached later by the external writer
NewHandle == Str("h3")

PayloadB == [description |-> Str("hi"), photos |-> List(<<Str("img.png")>>),
             user_posted |-> Str("alice")]

PayloadC == [post_text |-> Str("post"), images |-> List(<<Str("pic.jpg")>>),
             user_id |-> Str("bob")]

PayloadD == [error |-> Str("blocked"), error_code |-> Str("E1")]

PayloadE == [error |-> Str("timeout")]

\* a payload whose photos value is an object, not a list
PayloadK == [text |-> Str("odd"), photos |-> Obj([first |-> Str("img.png")])]

PayloadV == [text |-> Str("clip"), photos |-> List(<<>>),
             videos |-> List(<<Obj([video_url |-> Str("v.mp4")])>>)]

EmptyObject == <<>>

Bodies ==
    { List(<<>>),
      List(<<Obj(PayloadB)>>),
      List(<<Obj(PayloadC)>>),
      List(<<Obj(PayloadV)>>),
      List(<<Obj(EmptyObject)>>),
      List(<<Obj(PayloadK)>>),
      List(<<Obj(PayloadD)>>),
      List(<<Obj(PayloadB), Obj(PayloadD)>>),
      List(<<Obj(PayloadD), Obj(PayloadE)>>),
      List(<<Obj(PayloadB), Obj(PayloadC)>>),
      Obj(PayloadB),
      [t |-> "invalid"] }

\* what download_snapshot_results can hand back: an exception that is not a
\* RequestException, None, or the provider's HTTP response
Responses ==
    { [kind |-> "raise"], [kind |-> "none"] }
    \cup { [kind |-> "http", status |-> st] : st \in {202, 204, 500} }
    \cup { [kind |-> "http", status |-> 200, body |-> b] : b \in Bodies }

\* the answers considered when several workers run
ResponsesMW ==
    { [kind |-> "none"],
      [kind |-> "http", status |-> 202],
      [kind |-> "http", status |-> 200, body |-> List(<<Obj(PayloadB)>>)],
      [kind |-> "http", status |-> 200, body |-> List(<<Obj(PayloadD)>>)] }

\* the answers considered in continuous mode before the provider has the
\* content
ResponsesLive ==
    { [kind |-> "none"],
      [kind |-> "http", status |-> 202],
      [kind |-> "http", status |-> 200, body |-> List(<<>>)],
      [kind |-> "http", status |-> 200, body |-> List(<<Obj(PayloadD)>>)] }

\* HTTP 200 with content
ContentResponses ==
    { [kind |-> "http", status |-> 200, body |-> List(<<Obj(PayloadB)>>)],
      [kind |-> "http", status |-> 200, body |-> List(<<Obj(PayloadC)>>)] }

\* the answers considered under the scheduler
SchedResponses ==
    { [kind |-> "http", status |-> 202],
      [kind |-> "http", status |-> 200, body |-> List(<<Obj(PayloadB)>>)] }

\* every answer a Fetch step can store
Answers ==
    Responses \cup ResponsesMW \cup ResponsesLive \cup ContentResponses
        \cup SchedResponses

\* Outcome, tabulated once over the answers and the URLs of the bookmarks
OutcomeOf == [r \in Answers, url \in Urls |-> Outcome(r, url)]

NoResponse == [kind |-> "unset"]

NoUpdate == [none |-> TRUE]

NoItem == [w |-> "-"]

NoInput == [t |-> "unset"]

NoSched == [mode |-> "-"]

NoResult == [none |-> TRUE]

\* a bookmark as the external system created it
NewRow(url, handle) ==
    [url |-> url, snapshot_id |-> handle, description |-> JNull,
     preview_image_url |-> JNull, preview_video_url |-> JNull,
     social_profile_name |-> JNull, scrape_error |-> JNull]

\* the place of a bookmark that is no longer in the table
NoRow == NewRow(JNull, JNull)

\* the orders in which the store may return a set of rows
Orders(S) ==
    { q \in [1..Cardinality(S) -> S] :
        \A i, j \in 1..Cardinality(S) : i # j => q[i] # q[j] }

\* a JSON number
Num(n) == [t |-> "num", n |-> n]

\* the objects of S, and each of them with key k holding a value of V
WithKey(S, k, V) == S \cup { SetKey(o, k, v) : o \in S, v \in V }

\* payloads of the shape the X dataset returns, with keys missing or empty
XObjects ==
    WithKey(WithKey(WithKey(WithKey(WithKey(WithKey({EmptyObject},
        "description", {Str(""), Str("d")}),
        "text", {Str("t")}),
        "content", {JNull, Str("c")}),
        "photos", {List(<<>>), List(<<Str("img.png")>>),
                   List(<<Str("a.png"), Str("b.png")>>)}),
        "videos", {List(<<>>), List(<<Str("v.mp4")>>),
                   List(<<Obj([video_url |-> Str("v.mp4")])>>),
                   List(<<Obj([duration |-> Str("10s")])>>)}),
        "user_posted", {Str("alice")})

\* payloads of the shape the LinkedIn dataset returns
LinkedInObjects ==
    WithKey(WithKey(WithKey(WithKey(WithKey(WithKey({EmptyObject},
        "post_text", {Str(""), Str("p")}),
        "text", {Str("t")}),
        "title", {Str("ti")}),
        "headline", {JNull, Str("h")}),
        "images", {List(<<>>), List(<<Str("pic.jpg")>>)}),
        "user_id", {Str("bob")})

\* objects whose values are not of the shape the datasets document
OddObjects ==
    { PayloadK,
      [text |-> Str("odd"), photos |-> Num(3)],
      [text |-> Str("odd"), photos |-> Str("img.png")],
      [text |-> Str("odd"), images |-> Obj([first |-> Str("pic.jpg")])],
      [text |-> Str("odd"), videos |-> Obj([first |-> Str("v.mp4")])],
      [description |-> Num(7)],
      [description |-> List(<<Str("d")>>)],
      [post_text |-> Obj([body |-> Str("p")])] }

\* objects with an `error` key
ErrorObjects ==
    { PayloadD, PayloadE, [error |-> JNull],
      [error |-> JNull, description |-> Str("d")] }

\* what a direct call, or an element of the provider's array, can be
Inputs ==
    { Obj(o) : o \in XObjects \cup LinkedInObjects \cup OddObjects \cup ErrorObjects }
    \cup { Obj(PayloadB), Obj(PayloadC), Obj(PayloadV) }
    \cup { JNull, Str(""), Str("raw text"), Num(7), List(<<>>), List(<<Str("a")>>) }

\* the settings of a run in continuous mode: poll_snapshots(poll_interval,
\* max_iterations)
ContinuousRuns ==
    { [mode |-> "continuous", at |-> "top", poll_interval |-> p,
       max_iterations |-> m, MAX_PROC_RUNTIME_IN_SECONDS |-> 0,
       proc_runtime_in_secs |-> 0, elapsed |-> 0, sleep_time |-> 0,
       slept |-> FALSE, interrupted |-> FALSE, caught |-> FALSE,
       cycles |-> 0] :
      p \in {-1, 1},
      m \in {JNull} \cup { Num(n) : n \in 0..MaxIterations } }

\* the settings of a run in bounded mode: MAX_RUNTIME_SECONDS and
\* SNAPSHOT_POLL_INTERVAL
BoundedRuns ==
    { [mode |-> "bounded", at |-> "top", poll_interval |-> p,
       max_iterations |-> JNull, MAX_PROC_RUNTIME_IN_SECONDS |-> c,
       proc_runtime_in_secs |-> 0, elapsed |-> 0, sleep_time |-> 0,
       slept |-> FALSE, interrupted |-> FALSE, caught |-> FALSE,
       cycles |-> 0] :
      p \in -1..MaxInterval,
      c \in 0..MaxRuntime }

\* the provider records that may follow the first element of an array
Rests ==
    { <<Obj(PayloadB)>>, <<Obj(PayloadC)>>, <<Obj(EmptyObject)>>,
      <<Obj(PayloadV), Obj(PayloadC)>>,
      <<Obj(PayloadD)>>, <<Obj(PayloadE), Obj(PayloadB)>>,
      <<Obj(PayloadD), Obj(PayloadE)>> }

ServiceNames == {"x", "linkedin", "instagram", "unknown"}

InstagramUrl == <<"https://", "www.", "instagram.com", "/p/3">>

\* an X address that carries the LinkedIn marker in its query
SharedUrl == <<"https://", "x.com", "/share?u=", "linkedin.com", "/in/bob">>

StoredUrls == Urls \cup {InstagramUrl, SharedUrl}

---------------------------------------------------------------------------
(* Initial state *)

InitRest ==
    /\ pc = [w \in Workers |-> "idle"]
    /\ bookmarks = [w \in Workers |-> <<>>]
    /\ idx = [w \in Workers |-> 0]
    /\ response = [w \in Workers |-> NoResponse]
    /\ iteration = [w \in Workers |-> 0]
    /\ calls = [w \in Workers |-> <<>>]
    /\ cycleRet = [w \in Workers |-> "none"]
    /\ last = NoItem
    /\ cleared = {}
    /\ snap = store
    /\ allPending = TRUE
    /\ attached = 0
    /\ outcomes = [id \in BookmarkIds |-> "-"]
    /\ prev = [id \in BookmarkIds |-> "-"]
    /\ stable = FALSE

\* no function has been called directly
NoDirectCall ==
    /\ data = NoInput
    /\ extraction = NoResult
    /\ built = NoResult

Init ==
    /\ store \in { r \in [BookmarkIds -> { NewRow(u, h) :
                                   u \in Urls,
                                   h \in {JNull, Str(""), Str("h1"), Str("h2")} }] :
                   \A id \in BookmarkIds :
                       r[id].snapshot_id \in {JNull, Str(""), FirstHandle(id)} }
    /\ InitRest
    /\ sched = NoSched
    /\ NoDirectCall

\* two workers start on one pending X bookmark; the other bookmark's handle
\* is the empty string
InitMW ==
    /\ store = [id \in BookmarkIds |->
                   IF id = "b1" THEN NewRow(XUrl, FirstHandle(id))
                   ELSE NewRow(LinkedInUrl, Str(""))]
    /\ InitRest
    /\ sched = NoSched
    /\ NoDirectCall

\* continuous mode starts on two bookmarks, the first with a pending handle
InitLive ==
    /\ store \in { [id \in BookmarkIds |->
                      IF id = "b1" THEN NewRow(XUrl, FirstHandle(id))
                      ELSE NewRow(LinkedInUrl, h)] :
                   h \in {JNull, Str(""), FirstHandle("b2")} }
    /\ InitRest
    /\ sched = NoSched
    /\ NoDirectCall

\* a scheduler starts on two listed bookmarks; the handle of the second may
\* be the empty string
InitSched ==
    /\ store \in { [id \in BookmarkIds |->
                      IF id = "b1" THEN NewRow(XUrl, FirstHandle(id))
                      ELSE NewRow(LinkedInUrl, h)] :
                   h \in {Str(""), FirstHandle("b2")} }
    /\ InitRest
    /\ NoDirectCall
    /\ sched \in ContinuousRuns \cup BoundedRuns

\* a payload is at hand for direct calls; the worker is not running
InitExtract ==
    /\ store = [id \in BookmarkIds |-> NewRow(XUrl, JNull)]
    /\ InitRest
    /\ sched = NoSched
    /\ data \in Inputs
    /\ extraction = NoResult
    /\ built = NoResult

---------------------------------------------------------------------------
(* snapshot_service.py: poll_snapshots_once *)

\* a variant whose loop has no except clause
Caught_Nothing(exc) == FALSE

\* except Exception: every exception but an interrupt is caught per item
Caught(exc) == exc # "KeyboardInterrupt"

\* the rows of the listing, in the order the store returns them
ListedRows(rows, order) ==
    [i \in 1..Len(order) |-> Selected(order[i], rows[order[i]])]

\* a variant that lets a failure of the listing leave the cycle as an exception
EnterCycle_FailureRaised(w, result, listing) ==
    /\ bookmarks' = [bookmarks EXCEPT ![w] = result]
    /\ pc' = [pc EXCEPT ![w] = IF Len(result) = 0 THEN "idle" ELSE "loop"]
    /\ idx' = [idx EXCEPT ![w] = IF Len(result) = 0 THEN 0 ELSE 1]
    /\ cycleRet' = [cycleRet EXCEPT ![w] =
                       IF listing = "error" THEN "raised"
                       ELSE IF Len(result) = 0 THEN "returned" ELSE "running"]
    /\ calls' = [calls EXCEPT ![w] = << [op |-> "list", id |-> listing] >>]

\* the head of the cycle: return when the listing is empty, else enter the loop
EnterCycle(w, result, listing) ==
    /\ bookmarks' = [bookmarks EXCEPT ![w] = result]
    /\ pc' = [pc EXCEPT ![w] = IF Len(result) = 0 THEN "idle" ELSE "loop"]
    /\ idx' = [idx EXCEPT ![w] = IF Len(result) = 0 THEN 0 ELSE 1]
    /\ cycleRet' = [cycleRet EXCEPT ![w] =
                       IF Len(result) = 0 THEN "returned" ELSE "running"]
    /\ calls' = [calls EXCEPT ![w] = << [op |-> "list", id |-> listing] >>]

\* get_bookmarks_with_snapshots (an empty list when the call fails) and the
\* head of poll_snapshots_once
StartCycle(w) ==
    /\ pc[w] = "idle"
    /\ \E listing \in {"ok", "error"} :
         \E order \in Orders({ id \in BookmarkIds : ListFilter(store[id]) }) :
            EnterCycle(w, IF listing = "ok" THEN ListedRows(store, order) ELSE <<>>,
                       listing)
    /\ snap' = store
    /\ allPending' = TRUE
    /\ prev' = outcomes
    /\ outcomes' = [id \in BookmarkIds |-> "-"]
    /\ UNCHANGED <<store, response, last, cleared, attached>>
    /\ UNCHANGED <<stable, data, extraction, built>>

\* poll_snapshots with max_iterations set: iteration += 1, stop past the
\* maximum, else run one cycle
PollStart(w, cycles) ==
    /\ iteration[w] < cycles
    /\ StartCycle(w)
    /\ iteration' = [iteration EXCEPT ![w] = @ + 1]
    /\ UNCHANGED sched

\* poll_snapshots with max_iterations=None: the loop never stops by itself;
\* the counter, which is then never read, is followed up to MaxCycles
PollForever(w) ==
    /\ StartCycle(w)
    /\ iteration' = [iteration EXCEPT ![w] = IF @ < MaxCycles THEN @ + 1 ELSE @]
    /\ UNCHANGED sched

\* a variant that tries the same bookmark again
Advance_Retry(w) ==
    /\ idx' = idx
    /\ pc' = [pc EXCEPT ![w] = "loop"]
    /\ cycleRet' = cycleRet

\* the loop moves to the next bookmark, or the cycle returns
Advance(w) ==
    IF idx[w] < Len(bookmarks[w])
    THEN /\ idx' = [idx EXCEPT ![w] = @ + 1]
         /\ pc' = [pc EXCEPT ![w] = "loop"]
         /\ cycleRet' = cycleRet
    ELSE /\ idx' = [idx EXCEPT ![w] = 0]
         /\ pc' = [pc EXCEPT ![w] = "idle"]
         /\ cycleRet' = [cycleRet EXCEPT ![w] = "returned"]

\* an exception leaves the loop and poll_snapshots_once
Abort(w) ==
    /\ idx' = [idx EXCEPT ![w] = 0]
    /\ pc' = [pc EXCEPT ![w] = "idle"]
    /\ cycleRet' = [cycleRet EXCEPT ![w] = "raised"]

\* if not snapshot_id: continue
Skip(w) ==
    /\ pc[w] = "loop"
    /\ ~Truthy(bookmarks[w][idx[w]].snapshot_id)
    /\ Advance(w)
    /\ UNCHANGED <<store, bookmarks, response, iteration, calls, last, cleared,
                   snap, allPending, attached, outcomes, prev>>
    /\ UNCHANGED <<stable, data, extraction, built, sched>>

\* download_snapshot_results: one GET to the provider for the handle
Fetch(w, answers) ==
    /\ pc[w] = "loop"
    /\ Truthy(bookmarks[w][idx[w]].snapshot_id)
    /\ \E r \in answers : response' = [response EXCEPT ![w] = r]
    /\ pc' = [pc EXCEPT ![w] = "fetched"]
    /\ calls' = [calls EXCEPT ![w] =
                    Append(@, [op |-> "fetch", id |-> bookmarks[w][idx[w]].id])]
    /\ UNCHANGED <<store, bookmarks, idx, iteration, cycleRet, last, cleared,
                   snap, allPending, attached, outcomes, prev>>
    /\ UNCHANGED <<stable, data, extraction, built, sched>>

\* the provider answered neither 200 nor 202, or did not answer
IsTransportError(r) ==
    \/ r.kind = "none"
    \/ r.kind = "http" /\ r.status \notin {200, 202}

\* how the processing of one bookmark ended
OutcomeKind(r, ret) ==
    CASE ret = "None" -> "pending"
      [] ret = "True" -> "done"
      [] ret = "False" -> "failed"
      [] IsTransportError(r) -> "transport"
      [] OTHER -> "raised"

\* a variant that reports success whenever update_bookmark was called
ReturnOf_Sent(out, result) ==
    CASE out.do = "none" -> "None"
      [] out.do = "raise" -> "raise"
      [] OTHER -> "True"

\* what process_snapshot_for_bookmark returns, or "raise"
ReturnOf(out, result) ==
    CASE out.do = "none" -> "None"
      [] out.do = "raise" -> "raise"
      [] out.do = "update" /\ result -> "True"
      [] OTHER -> "False"

\* the end of process_snapshot_for_bookmark and the except clause of the loop
Finish(w, bm, out, patch, ret) ==
    /\ store' = IF patch = "ok" THEN Patch(store, bm.id, out.updates) ELSE store
    /\ last' = [w |-> w, id |-> bm.id, handle |-> bm.snapshot_id,
                held |-> store[bm.id].snapshot_id,
                wrote |-> (patch = "ok"
                           /\ Patch(store, bm.id, out.updates) # store),
                url |-> bm.url, resp |-> response[w],
                updates |-> IF out.do = "update" THEN out.updates ELSE NoUpdate,
                patch |-> patch, ret |-> ret,
                exc |-> IF out.do = "raise" THEN out.exc ELSE "-"]
    /\ calls' = [calls EXCEPT ![w] =
                    IF out.do = "update"
                    THEN Append(@, [op |-> "update", id |-> bm.id])
                    ELSE @]
    /\ cleared' = IF ret = "True" /\ store[bm.id].snapshot_id # JNull
                  THEN cleared \cup {bm.id}
                  ELSE cleared
    /\ allPending' = (allPending /\ IsPending(response[w]))
    /\ outcomes' = [outcomes EXCEPT ![bm.id] = OutcomeKind(response[w], ret)]
    /\ IF ret = "raise" /\ ~Caught(out.exc) THEN Abort(w) ELSE Advance(w)

\* update_bookmark: the PATCH succeeds or fails; None unless a row came back
UpdateAndFinish(w, bm, out) ==
    \E patch \in (IF out.do = "update" THEN {"ok", "error"} ELSE {"none"}) :
        Finish(w, bm, out, patch,
               ReturnOf(out, patch = "ok" /\ Matched(store, bm.id)))

\* the rest of process_snapshot_for_bookmark (branch on the response, build
\* the update, update_bookmark) and the except clause of the loop
Process(w) ==
    /\ pc[w] = "fetched"
    /\ UpdateAndFinish(w, bookmarks[w][idx[w]],
                       OutcomeOf[response[w], bookmarks[w][idx[w]].url])
    /\ response' = [response EXCEPT ![w] = NoResponse]
    /\ UNCHANGED <<bookmarks, iteration, snap, attached, prev>>
    /\ UNCHANGED <<stable, data, extraction, built, sched>>

\* the external system starts a new scrape of a bookmark and stores its handle
AttachHandle(id) ==
    /\ attached < MaxAttach
    /\ attached' = attached + 1
    /\ store' = [store EXCEPT ![id].snapshot_id = NewHandle]
    /\ UNCHANGED <<pc, bookmarks, idx, response, iteration, calls, cycleRet,
                   last, cleared, snap, allPending, outcomes, prev>>
    /\ UNCHANGED <<stable, data, extraction, built, sched>>

\* the external system deletes a bookmark
DeleteBookmark(id) ==
    /\ Present(store[id])
    /\ store' = [store EXCEPT ![id] = NoRow]
    /\ UNCHANGED <<pc, bookmarks, idx, response, iteration, calls, cycleRet,
                   last, cleared, snap, allPending, attached, outcomes, prev>>
    /\ UNCHANGED <<stable, data, extraction, built, sched>>

\* between two cycles: from the next cycle on the provider answers 200 with
\* content and the store's list and update calls succeed
Stabilize ==
    /\ ~stable
    /\ pc["w1"] = "idle"
    /\ stable' = TRUE
    /\ UNCHANGED <<store, pc, bookmarks, idx, response, iteration, calls,
                   cycleRet, last, cleared, snap, allPending, attached,
                   outcomes, prev, data, extraction, built, sched>>

\* the steps of the worker in continuous mode
LiveStart ==
    /\ PollForever("w1")
    /\ stable => calls'["w1"][1].id = "ok"

LiveSkip == Skip("w1")

LiveFetch == Fetch("w1", IF stable THEN ContentResponses ELSE ResponsesLive)

LiveProcess ==
    /\ Process("w1")
    /\ stable => last'.patch # "error"

---------------------------------------------------------------------------
(* Direct calls of the pure functions: one call on the payload at hand, whose
   result is kept in extraction or in built *)

\* process_result(data, service_name)
CallProcessResult(service_name) ==
    /\ data # NoInput
    /\ extraction = NoResult /\ built = NoResult
    /\ extraction' = [service_name |-> service_name,
                      processed |-> process_result(data, service_name)]
    /\ built' = NoResult
    /\ UNCHANGED <<store, pc, bookmarks, idx, response, iteration, calls,
                   cycleRet, last, cleared, snap, allPending, attached,
                   outcomes, prev, stable, data, sched>>

\* the JSON body of a 200 answer whose payload is data
AsResults(payload, shape) ==
    IF shape = "array" THEN List(<<payload>>) ELSE payload

\* process_snapshot_for_bookmark from response.json() up to the call of
\* update_bookmark, for a bookmark whose stored URL is url
CallBuildUpdates(url, shape) ==
    /\ data # NoInput
    /\ extraction = NoResult /\ built = NoResult
    /\ built' = [url |-> url,
                 results |-> AsResults(data, shape),
                 out |-> Outcome([kind |-> "http", status |-> 200,
                                  body |-> AsResults(data, shape)], url)]
    /\ extraction' = NoResult
    /\ UNCHANGED <<store, pc, bookmarks, idx, response, iteration, calls,
                   cycleRet, last, cleared, snap, allPending, attached,
                   outcomes, prev, stable, data, sched>>

\* the same for a 200 answer whose array holds data followed by the elements
\* of rest
CallBuildUpdatesOnArray(url, rest) ==
    /\ data # NoInput
    /\ extraction = NoResult /\ built = NoResult
    /\ built' = [url |-> url,
                 results |-> List(<<data>> \o rest),
                 out |-> Outcome([kind |-> "http", status |-> 200,
                                  body |-> List(<<data>> \o rest)], url)]
    /\ extraction' = NoResult
    /\ UNCHANGED <<store, pc, bookmarks, idx, response, iteration, calls,
                   cycleRet, last, cleared, snap, allPending, attached,
                   outcomes, prev, stable, data, sched>>

---------------------------------------------------------------------------
(* snapshot_service.py: poll_snapshots (continuous mode); app.py: main
   (bounded mode).  Time is counted in ticks of the clock. *)

\* the listing answers with a row that is not an object: bookmark.get raises
\* AttributeError before the try of the loop, and poll_snapshots_once raises
ListingMalformed(w) ==
    /\ pc[w] = "idle"
    /\ bookmarks' = [bookmarks EXCEPT ![w] = <<>>]
    /\ calls' = [calls EXCEPT ![w] = << [op |-> "list", id |-> "malformed"] >>]
    /\ cycleRet' = [cycleRet EXCEPT ![w] = "raised"]
    /\ snap' = store
    /\ allPending' = TRUE
    /\ prev' = outcomes
    /\ outcomes' = [id \in BookmarkIds |-> "-"]
    /\ UNCHANGED <<store, pc, idx, response, last, cleared, attached>>
    /\ UNCHANGED <<stable, data, extraction, built>>

\* the call of poll_snapshots_once, up to its loop
RunCycle(w) == StartCycle(w) \/ ListingMalformed(w)

\* iteration += 1; the counter is followed up to one past MaxIterations
NextIteration(i) == IF i <= MaxIterations THEN i + 1 ELSE i

\* a variant that stops one pass earlier
ReachedMax_Inclusive(max_iterations, i) ==
    Truthy(max_iterations) /\ i >= max_iterations.n

\* if max_iterations and iteration > max_iterations
ReachedMax(max_iterations, i) ==
    Truthy(max_iterations) /\ i > max_iterations.n

\* poll_snapshots: one pass of `while True` up to the call of
\* poll_snapshots_once, or the break at the maximum
PollTop ==
    /\ sched.mode = "continuous"
    /\ sched.at = "top"
    /\ iteration' = [iteration EXCEPT !["w1"] = NextIteration(@)]
    /\ IF ReachedMax(sched.max_iterations, NextIteration(iteration["w1"]))
       THEN /\ sched' = [sched EXCEPT !.at = "stopped"]
            /\ UNCHANGED <<store, pc, bookmarks, idx, response, calls,
                           cycleRet, last, cleared, snap, allPending,
                           attached, outcomes, prev, stable, data,
                           extraction, built>>
       ELSE /\ RunCycle("w1")
            /\ sched' = [sched EXCEPT !.at = "cycle",
                                      !.cycles = NextIteration(@)]

\* a variant whose loop has no except clause for the cycle
AfterCycle_Uncaught(ret, interval) ==
    IF ret = "raised" \/ interval < 0 THEN "crashed" ELSE "sleep"

\* where the loop goes when poll_snapshots_once has returned or raised an
\* Exception: both are followed by time.sleep(interval), which raises
\* ValueError for a negative interval, and nothing catches that
AfterCycle(ret, interval) ==
    IF interval < 0 THEN "crashed" ELSE "sleep"

\* poll_snapshots: the cycle is over; time.sleep(poll_interval) in the try
\* block or in the except clause
PollSleep ==
    /\ sched.mode = "continuous"
    /\ sched.at = "cycle"
    /\ pc["w1"] = "idle"
    /\ sched' = [sched EXCEPT
                    !.at = AfterCycle(cycleRet["w1"], sched.poll_interval),
                    !.caught = @ \/ cycleRet["w1"] = "raised"]
    /\ UNCHANGED <<store, pc, bookmarks, idx, response, iteration, calls,
                   cycleRet, last, cleared, snap, allPending, attached,
                   outcomes, prev, stable, data, extraction, built>>

\* poll_snapshots: the sleep is over
PollWake ==
    /\ sched.mode = "continuous"
    /\ sched.at = "sleep"
    /\ sched' = [sched EXCEPT !.at = "top"]
    /\ UNCHANGED <<store, pc, bookmarks, idx, response, iteration, calls,
                   cycleRet, last, cleared, snap, allPending, attached,
                   outcomes, prev, stable, data, extraction, built>>

\* KeyboardInterrupt is raised in the running thread.  Inside a cycle no
\* `except Exception` catches it, so it leaves poll_snapshots_once at once and
\* reaches `except KeyboardInterrupt: break`; during the sleep of the try
\* block likewise; during the sleep of the except clause nothing catches it
Interrupt ==
    /\ sched.mode = "continuous"
    /\ \/ /\ sched.at = "cycle"
          /\ pc["w1"] # "idle"
          /\ Abort("w1")
          /\ response' = [response EXCEPT !["w1"] = NoResponse]
          /\ sched' = [sched EXCEPT !.at = "stopped", !.interrupted = TRUE]
          /\ UNCHANGED <<store, bookmarks, iteration, calls, last, cleared,
                         snap, allPending, attached, outcomes, prev, stable,
                         data, extraction, built>>
       \/ /\ sched.at = "sleep"
          /\ sched' = [sched EXCEPT
                          !.at = IF cycleRet["w1"] = "raised"
                                 THEN "crashed" ELSE "stopped",
                          !.interrupted = TRUE]
          /\ UNCHANGED <<store, pc, bookmarks, idx, response, iteration,
                         calls, cycleRet, last, cleared, snap, allPending,
                         attached, outcomes, prev, stable, data, extraction,
                         built>>

\* a variant that always sleeps the whole interval
SleepTime_Untruncated(poll_interval, ceiling, runtime) == poll_interval

\* sleep_time = min(poll_interval, MAX_PROC_RUNTIME_IN_SECONDS - proc_runtime_in_secs)
SleepTime(poll_interval, ceiling, runtime) ==
    IF poll_interval <= ceiling - runtime THEN poll_interval
    ELSE ceiling - runtime

\* main: the head of the while loop: one more cycle, or the exit
MainTop ==
    /\ sched.mode = "bounded"
    /\ sched.at = "top"
    /\ IF sched.proc_runtime_in_secs < sched.MAX_PROC_RUNTIME_IN_SECONDS
       THEN /\ RunCycle("w1")
            /\ sched' = [sched EXCEPT !.at = "cycle",
                                      !.cycles = NextIteration(@)]
       ELSE /\ sched' = [sched EXCEPT !.at = "exited"]
            /\ UNCHANGED <<store, pc, bookmarks, idx, response, calls,
                           cycleRet, last, cleared, snap, allPending,
                           attached, outcomes, prev, stable, data,
                           extraction, built>>
    /\ UNCHANGED iteration

\* main, lines 98-102, with the runtime already holding the cycle's time:
\* sleep when the ceiling is not reached; time.sleep raises ValueError for a
\* negative length and main has no handler for it
SleepOrNot(s) ==
    IF s.proc_runtime_in_secs >= s.MAX_PROC_RUNTIME_IN_SECONDS
    THEN [s EXCEPT !.at = "top", !.slept = FALSE]
    ELSE IF SleepTime(s.poll_interval, s.MAX_PROC_RUNTIME_IN_SECONDS,
                      s.proc_runtime_in_secs) < 0
    THEN [s EXCEPT !.at = "crashed", !.slept = FALSE]
    ELSE [s EXCEPT !.at = "top", !.slept = TRUE,
                   !.sleep_time = SleepTime(s.poll_interval,
                                            s.MAX_PROC_RUNTIME_IN_SECONDS,
                                            s.proc_runtime_in_secs),
                   !.proc_runtime_in_secs =
                       @ + SleepTime(s.poll_interval,
                                     s.MAX_PROC_RUNTIME_IN_SECONDS,
                                     s.proc_runtime_in_secs)]

\* main: poll_snapshots_once has returned, or raised an Exception that the
\* except clause logged; the time it took is added, then the sleep.  A cycle
\* takes at least one tick
MainAccount ==
    /\ sched.mode = "bounded"
    /\ sched.at = "cycle"
    /\ pc["w1"] = "idle"
    /\ \E elapsed \in 1..MaxElapsed :
          sched' = SleepOrNot([sched EXCEPT
                                  !.elapsed = elapsed,
                                  !.proc_runtime_in_secs = @ + elapsed,
                                  !.caught = @ \/ cycleRet["w1"] = "raised"])
    /\ UNCHANGED <<store, pc, bookmarks, idx, response, iteration, calls,
                   cycleRet, last, cleared, snap, allPending, attached,
                   outcomes, prev, stable, data, extraction, built>>

---------------------------------------------------------------------------
(* Specifications *)

\* one worker process, the deployment of app.py
Next ==
    \/ PollStart("w1", MaxCycles)
    \/ Skip("w1")
    \/ Fetch("w1", Responses)
    \/ Process("w1")

Spec == Init /\ [][Next]_vars

\* several worker processes against one store, and the external writer
NextMW ==
    \/ \E w \in Workers : PollStart(w, MaxCyclesMW)
    \/ \E w \in Workers : Skip(w)
    \/ \E w \in Workers : Fetch(w, ResponsesMW)
    \/ \E w \in Workers : Process(w)
    \/ \E id \in BookmarkIds : AttachHandle(id)

SpecMW == InitMW /\ [][NextMW]_vars

\* one worker in continuous mode (poll_snapshots with max_iterations=None):
\* the loop runs a cycle, sleeps and starts the next, so every step of the
\* worker that stays possible is eventually taken
NextLive ==
    \/ LiveStart
    \/ LiveSkip
    \/ LiveFetch
    \/ LiveProcess
    \/ Stabilize

SpecLive ==
    /\ InitLive
    /\ [][NextLive]_vars
    /\ WF_vars(LiveStart)
    /\ WF_vars(LiveSkip)
    /\ WF_vars(LiveFetch)
    /\ WF_vars(LiveProcess)

\* the extractor and the update builder, called on every payload of Inputs
NextExtract ==
    \/ \E service_name \in ServiceNames : CallProcessResult(service_name)
    \/ \E url \in StoredUrls : \E shape \in {"array", "bare"} :
          CallBuildUpdates(url, shape)
    \/ \E url \in StoredUrls : \E rest \in Rests :
          CallBuildUpdatesOnArray(url, rest)

SpecExtract == InitExtract /\ [][NextExtract]_vars

\* one worker against a store whose bookmarks the external system may delete
\* at any moment, also between the listing and the update
NextGone ==
    \/ PollStart("w1", MaxCycles)
    \/ Skip("w1")
    \/ Fetch("w1", SchedResponses)
    \/ Process("w1")
    \/ \E id \in BookmarkIds : DeleteBookmark(id)

SpecGone == InitLive /\ [][NextGone]_vars

\* one worker under either scheduler loop.  The loop is one thread that runs
\* on, so every step of it that stays possible is eventually taken; an
\* interrupt may or may not come
NextSched ==
    \/ PollTop
    \/ PollSleep
    \/ PollWake
    \/ Interrupt
    \/ MainTop
    \/ MainAccount
    \/ Skip("w1")
    \/ Fetch("w1", SchedResponses)
    \/ Process("w1")

SpecSched ==
    /\ InitSched
    /\ [][NextSched]_vars
    /\ WF_vars(PollTop)
    /\ WF_vars(PollSleep)
    /\ WF_vars(PollWake)
    /\ WF_vars(MainTop)
    /\ WF_vars(MainAccount)
    /\ WF_vars(Skip("w1"))
    /\ WF_vars(Fetch("w1", SchedResponses))
    /\ WF_vars(Process("w1"))

---------------------------------------------------------------------------
(* Vocabulary of the properties *)

\* process_snapshot_for_bookmark has handled an item
Handled == last.w # "-"

\* the provider answered 200 with a JSON array
Answered200Array(r) ==
    r.kind = "http" /\ r.status = 200 /\ r.body.t = "list"

\* an element of the array carries an `error` field
CarriesError(item) == item.t = "obj" /\ "error" \in DOMAIN item.o

SomeError(body) == \E i \in 1..Len(body.items) : CarriesError(body.items[i])

\* Ready: a 200 array in which no element has an `error` field
IsReady(r) == Answered200Array(r) /\ ~SomeError(r.body)

\* ProviderError: a 200 array in which some element has an `error` field
IsProviderError(r) == Answered200Array(r) /\ SomeError(r.body)

ContentKeys ==
    {"description", "preview_image_url", "preview_video_url", "social_profile_name"}

\* the extracted field that an update key carries
ExtractedKey(k) == IF k = "description" THEN "content" ELSE k

\* worker w takes its Process step
ProcessStep(w) == pc[w] = "fetched" /\ pc'[w] # "fetched"

\* the bookmark worker w is handling
Current(w) == bookmarks[w][idx[w]]

\* the current cycle of w has fetched the provider for bookmark id
FetchedInCycle(w, id) ==
    \E i \in 1..Len(calls[w]) : calls[w][i] = [op |-> "fetch", id |-> id]

\* worker w has completed a cycle whose listing call succeeded
CycleDone(w) ==
    /\ pc[w] = "idle"
    /\ Len(calls[w]) > 0
    /\ calls[w][1] = [op |-> "list", id |-> "ok"]

---------------------------------------------------------------------------
(* Properties *)

\* C1: for a 200 answer whose array has no element with an `error` field, one
\* update is issued and its payload is exactly {snapshot_id: null} plus, under
\* description, preview_image_url, preview_video_url and social_profile_name,
\* each extracted field that is present and non-empty.
C1_ReadyPayloadExact ==
    (Handled /\ IsReady(last.resp)) =>
        /\ IsPayload(last.updates)
        /\ last.updates # NoUpdate
        /\ last.updates.snapshot_id = JNull
        /\ DOMAIN last.updates \subseteq {"snapshot_id"} \cup ContentKeys
        /\ Len(last.resp.body.items) = 0 => DOMAIN last.updates = {"snapshot_id"}
        /\ Len(last.resp.body.items) > 0 =>
              LET extracted == process_result(last.resp.body.items[1],
                                              ServiceName(last.url))
              IN  \A k \in ContentKeys :
                     /\ k \in DOMAIN last.updates
                           <=> Truthy(PGet(extracted, ExtractedKey(k)))
                     /\ k \in DOMAIN last.updates
                           => last.updates[k] = extracted[ExtractedKey(k)]

\* C1, on the arrays the code does handle: when the array is not empty and the
\* extraction of its first element does not raise, the payload is as C1 says.
C1_NonEmptyReadyPayload ==
    (Handled /\ IsReady(last.resp) /\ Len(last.resp.body.items) > 0
       /\ IsProcessed(process_result(last.resp.body.items[1],
                                     ServiceName(last.url)))) =>
        /\ last.updates # NoUpdate
        /\ last.updates.snapshot_id = JNull
        /\ DOMAIN last.updates \subseteq {"snapshot_id"} \cup ContentKeys
        /\ \A k \in ContentKeys :
               /\ k \in DOMAIN last.updates
                     <=> Truthy(PGet(process_result(last.resp.body.items[1],
                                                    ServiceName(last.url)),
                                     ExtractedKey(k)))
               /\ k \in DOMAIN last.updates
                     => last.updates[k] =
                            process_result(last.resp.body.items[1],
                                           ServiceName(last.url))[ExtractedKey(k)]

\* C2: for every 200 answer whose body is a JSON array of any length, the
\* reconciler issues an update that sets snapshot_id to null, and after a
\* successful update the bookmark has no handle.
C2_HandleNeverDangling ==
    (Handled /\ Answered200Array(last.resp)) =>
        /\ last.updates # NoUpdate
        /\ last.updates.snapshot_id = JNull
        /\ last.patch = "ok" => store[last.id].snapshot_id = JNull

\* C3: a 202 answer makes the cycle issue no store update for that bookmark:
\* the store is unchanged by its processing and nothing is returned but None;
\* and a bookmark left pending by one cycle is listed and fetched again by the
\* next cycle (whenever that cycle's listing call succeeds).
C3_PendingStep ==
    (ProcessStep("w1") /\ IsPending(response["w1"])) =>
        /\ store' = store
        /\ calls'["w1"] = calls["w1"]
        /\ last'.updates = NoUpdate
        /\ last'.ret = "None"
        /\ last'.id = Current("w1").id
        /\ store'[last'.id].snapshot_id = Current("w1").snapshot_id

C3_PendingRevisited ==
    CycleDone("w1") =>
        \A id \in BookmarkIds :
            prev[id] = "pending" =>
                /\ \E i \in 1..Len(bookmarks["w1"]) : bookmarks["w1"][i].id = id
                /\ FetchedInCycle("w1", id)

C3_PendingNoUpdate == [][C3_PendingStep]_vars /\ []C3_PendingRevisited

\* C3 witness: a bookmark answered 202 in the first cycle has been fetched
\* again in the second cycle, its handle still in place.
C3_Witness ==
    /\ CycleDone("w1")
    /\ iteration["w1"] = 2
    /\ prev["b1"] = "pending"
    /\ FetchedInCycle("w1", "b1")
    /\ store["b1"].snapshot_id = FirstHandle("b1")

\* C4: for a 200 answer in which some element carries an `error` field the
\* payload is exactly {snapshot_id: null, scrape_error: <an error message of
\* the array>}: no content key is sent, the content fields of the bookmark are
\* untouched, and a successful update clears the handle and records the error.
C4_ErrorStep ==
    (ProcessStep("w1") /\ IsProviderError(response["w1"])) =>
        LET id == Current("w1").id
            items == response["w1"].body.items
        IN  /\ last'.id = id
            /\ DOMAIN last'.updates = {"snapshot_id", "scrape_error"}
            /\ last'.updates.snapshot_id = JNull
            /\ \E i \in 1..Len(items) :
                  /\ CarriesError(items[i])
                  /\ last'.updates.scrape_error = items[i].o.error
            /\ \A k \in ContentKeys : store'[id][k] = store[id][k]
            /\ last'.patch = "ok" =>
                  /\ store'[id].snapshot_id = JNull
                  /\ store'[id].scrape_error = last'.updates.scrape_error
                  /\ last'.ret = "True"

C4_ProviderErrorPayload == [][C4_ErrorStep]_vars

\* C4 witness: the answer [{"error": "blocked", "error_code": "E1"}] has been
\* persisted as {snapshot_id: null, scrape_error: "blocked"}.
C4_Witness ==
    /\ Handled
    /\ last.resp = [kind |-> "http", status |-> 200, body |-> List(<<Obj(PayloadD)>>)]
    /\ last.updates = [snapshot_id |-> JNull, scrape_error |-> Str("blocked")]
    /\ last.patch = "ok"
    /\ store[last.id].snapshot_id = JNull
    /\ store[last.id].scrape_error = Str("blocked")
    /\ store[last.id].description = JNull

\* C5: on a transport error (no response, or a status other than 200 and 202)
\* no store update is issued for the bookmark and its handle stays; a bookmark
\* left by a transport error is listed and fetched again by the next cycle
\* (whenever that cycle's listing call succeeds).
C5_TransportStep ==
    (ProcessStep("w1") /\ IsTransportError(response["w1"])) =>
        /\ store' = store
        /\ calls'["w1"] = calls["w1"]
        /\ last'.updates = NoUpdate
        /\ last'.id = Current("w1").id
        /\ store'[last'.id].snapshot_id = Current("w1").snapshot_id

C5_TransportRevisited ==
    CycleDone("w1") =>
        \A id \in BookmarkIds :
            prev[id] = "transport" => FetchedInCycle("w1", id)

C5_TransportNoUpdate == [][C5_TransportStep]_vars /\ []C5_TransportRevisited

\* C5 witness: a bookmark whose fetch failed in the first cycle has been
\* fetched again in the second cycle, its handle still in place.
C5_Witness ==
    /\ CycleDone("w1")
    /\ iteration["w1"] = 2
    /\ prev["b2"] = "transport"
    /\ FetchedInCycle("w1", "b2")
    /\ store["b2"].snapshot_id = FirstHandle("b2")

\* C6: the store update is conditioned on the bookmark still holding the
\* handle that was fetched: an update computed for handle h never modifies a
\* bookmark whose current handle is different from h.
C6_UpdateConditioned ==
    (Handled /\ last.wrote) => last.held = last.handle

\* C7: clearing the handle and writing the content (or error) fields is one
\* persistence call per item: a cycle issues at most one update per bookmark,
\* every change of the store is the application of one whole payload that
\* carries snapshot_id = null, and no store state shows content or an error
\* with the handle still set, or a cleared handle without the payload's fields.
C7_WriteStep ==
    store' # store =>
        /\ ProcessStep("w1")
        /\ last'.id = Current("w1").id
        /\ last'.updates # NoUpdate
        /\ last'.updates.snapshot_id = JNull
        /\ \A id \in BookmarkIds :
              store'[id] = IF id = last'.id
                           THEN [k \in DOMAIN store[id] |->
                                    IF k \in DOMAIN last'.updates
                                    THEN last'.updates[k] ELSE store[id][k]]
                           ELSE store[id]

C7_OneUpdatePerBookmark ==
    \A id \in BookmarkIds :
        Cardinality({ i \in 1..Len(calls["w1"]) :
                        calls["w1"][i] = [op |-> "update", id |-> id] }) <= 1

C7_NoPartialState ==
    /\ \A id \in BookmarkIds :
          (\E k \in ContentKeys \cup {"scrape_error"} : store[id][k] # JNull)
              => store[id].snapshot_id = JNull
    /\ (Handled /\ last.patch = "ok") =>
          \A k \in DOMAIN last.updates : store[last.id][k] = last.updates[k]

C7_SinglePersistenceCall ==
    [][C7_WriteStep]_vars /\ []C7_OneUpdatePerBookmark /\ []C7_NoPartialState

\* C7 witness: one update has written the content of scenario B and cleared
\* the handle, and it is the only update of the cycle for that bookmark.
C7_Witness ==
    /\ Handled
    /\ last.patch = "ok"
    /\ last.updates = [snapshot_id |-> JNull, description |-> Str("hi"),
                       preview_image_url |-> Str("img.png"),
                       social_profile_name |-> Str("alice")]
    /\ store[last.id].snapshot_id = JNull
    /\ store[last.id].description = Str("hi")
    /\ Cardinality({ i \in 1..Len(calls["w1"]) :
                       calls["w1"][i] = [op |-> "update", id |-> last.id] }) = 1

\* C8: with a single worker, once a successful update has cleared a bookmark's
\* handle, no later listing returns the bookmark and no later step fetches the
\* provider for it or sends an update to it.
C8_ClearedStep ==
    \A id \in cleared :
        /\ calls'["w1"] # calls["w1"]
              => calls'["w1"][Len(calls'["w1"])].id # id
        /\ bookmarks'["w1"] # bookmarks["w1"]
              => \A i \in 1..Len(bookmarks'["w1"]) : bookmarks'["w1"][i].id # id
        /\ store'[id] = store[id]

C8_AtMostOneTerminal == [][C8_ClearedStep]_vars

\* C8 witness: b1 was cleared in the first cycle; the second cycle has run,
\* has fetched b2 and has left b1 alone.
C8_Witness ==
    /\ CycleDone("w1")
    /\ iteration["w1"] = 2
    /\ "b1" \in cleared
    /\ prev["b1"] = "done"
    /\ outcomes["b1"] = "-"
    /\ FetchedInCycle("w1", "b2")
    /\ ~FetchedInCycle("w1", "b1")

\* C9: a cycle during which every provider answer is 202 mutates no bookmark:
\* the store is as the cycle found it, so the state after two such cycles
\* equals the state after one.
C9_Idempotent ==
    (iteration["w1"] >= 1 /\ allPending) => store = snap

\* C9 witness: the second of two cycles in which the handle stayed pending
\* has completed.
C9_Witness ==
    /\ CycleDone("w1")
    /\ iteration["w1"] = 2
    /\ allPending
    /\ prev["b1"] = "pending"
    /\ outcomes["b1"] = "pending"
    /\ store = snap

\* C10: a failure while processing one bookmark does not abort the cycle:
\* poll_snapshots_once never raises, and when it returns every listed bookmark
\* with a non-empty handle has had its provider fetch attempted.
C10_FailureIsolated ==
    /\ cycleRet["w1"] # "raised"
    /\ (pc["w1"] = "idle" /\ Len(calls["w1"]) > 0) =>
          \A i \in 1..Len(bookmarks["w1"]) :
              Truthy(bookmarks["w1"][i].snapshot_id)
                  => FetchedInCycle("w1", bookmarks["w1"][i].id)

\* C10 witness: the processing of the first listed bookmark raised and the
\* second listed bookmark was fetched all the same.
C10_Witness ==
    /\ CycleDone("w1")
    /\ cycleRet["w1"] = "returned"
    /\ Len(bookmarks["w1"]) = 2
    /\ outcomes[bookmarks["w1"][1].id] = "raised"
    /\ calls["w1"][Len(calls["w1"])] = [op |-> "fetch", id |-> bookmarks["w1"][2].id]

\* C11: when the store update fails (update_bookmark returns None) the store
\* is unchanged, so the bookmark keeps its handle and its fields; the next
\* cycle (whenever its listing call succeeds) lists and fetches the bookmark
\* again, and issues the update again when the provider answers with a result.
C11_FailedStep ==
    (ProcessStep("w1") /\ last'.ret = "False") =>
        /\ last'.id = Current("w1").id
        /\ last'.updates # NoUpdate
        /\ store' = store
        /\ store'[last'.id].snapshot_id = Current("w1").snapshot_id
        /\ Truthy(store'[last'.id].snapshot_id)

C11_FailedRevisited ==
    CycleDone("w1") =>
        \A id \in BookmarkIds :
            prev[id] = "failed" =>
                /\ \E i \in 1..Len(bookmarks["w1"]) : bookmarks["w1"][i].id = id
                /\ FetchedInCycle("w1", id)

\* the provider's answer is a provider error or a result that can be extracted
C11_AnswersWithResult(r, url) ==
    \/ IsProviderError(r)
    \/ /\ IsReady(r)
       /\ Len(r.body.items) > 0
       /\ IsPayload(ReadyUpdates(process_result(r.body.items[1],
                                                ServiceName(url))))

C11_RetryStep ==
    (/\ ProcessStep("w1")
     /\ prev[Current("w1").id] = "failed"
     /\ C11_AnswersWithResult(response["w1"], Current("w1").url)) =>
        /\ calls'["w1"] =
              Append(calls["w1"], [op |-> "update", id |-> Current("w1").id])
        /\ last'.updates # NoUpdate
        /\ last'.ret \in {"True", "False"}

Built == built # NoResult

\* the direct call reached update_bookmark: its map is what the store is sent
Sent == Built /\ built.out.do = "update"

\* the body handed to the direct call has an element with an `error` field
BuiltFromError ==
    built.results.t = "list" /\ SomeError(built.results)

\* what the extractor gives for the body and the URL of the direct call
BuiltExtraction ==
    process_result(FirstResult(built.results), ServiceName(built.url))

\* C12, first half: a content key is in the payload only if the extraction
\* produced a non-empty value for it, and it carries that value.
C12_ContentKeysSelective ==
    Sent =>
        \A k \in ContentKeys \cap DOMAIN built.out.updates :
            /\ ~BuiltFromError
            /\ Truthy(PGet(BuiltExtraction, ExtractedKey(k)))
            /\ built.out.updates[k] = BuiltExtraction[ExtractedKey(k)]

\* C12: in every update payload sent to the store a content key appears only
\* if the extraction produced a non-empty value for it, and no key of the
\* payload other than snapshot_id carries a null value.
C12_SelectiveOverwrite ==
    /\ C12_ContentKeysSelective
    /\ Sent =>
          \A k \in DOMAIN built.out.updates \ {"snapshot_id"} :
              built.out.updates[k] # JNull

\* process_result has been called directly
Extracted == extraction # NoResult

\* the keys of ExtractedContent
ExtractedKeys ==
    {"content", "preview_image_url", "preview_video_url", "social_profile_name"}

\* a Python str
IsText(v) == v.t \in {"str", "repr", "char0"}

TextKeys ==
    {"description", "text", "content", "post_text", "title", "headline",
     "user_posted", "user_id"}

ListKeys == {"photos", "images", "videos"}

\* the values of an object have the shape the datasets document: text (or
\* null) under the text keys, a list (or null) under photos, images, videos
ExpectedShape(o) ==
    /\ \A k \in TextKeys \cap DOMAIN o : o[k].t \in {"str", "null"}
    /\ \A k \in ListKeys \cap DOMAIN o : o[k].t \in {"list", "null"}

\* the extraction returned a record with all four keys, content a string
TotalRecord(processed) ==
    /\ IsProcessed(processed)
    /\ DOMAIN processed = ExtractedKeys
    /\ IsText(processed.content)

\* C14: for every JSON-object input and each platform, the extractor does not
\* raise and returns a record with all four keys content, preview_image_url,
\* preview_video_url and social_profile_name, content being a string.
C14_ExtractionTotal ==
    (Extracted /\ data.t = "obj") => TotalRecord(extraction.processed)

\* C14, where it does hold: off the LinkedIn extractor, for objects whose
\* values have the documented shapes.
C14_TotalOnExpectedShapes ==
    (/\ Extracted
     /\ data.t = "obj"
     /\ ExpectedShape(data.o)
     /\ extraction.service_name # "linkedin") => TotalRecord(extraction.processed)

\* C14, for the LinkedIn extractor on the same objects: no exception, content
\* a string, and the three keys the extractor defines.
C14_LinkedInThreeKeys ==
    (/\ Extracted
     /\ data.t = "obj"
     /\ ExpectedShape(data.o)
     /\ extraction.service_name = "linkedin") =>
        /\ IsProcessed(extraction.processed)
        /\ IsText(extraction.processed.content)
        /\ DOMAIN extraction.processed = ExtractedKeys \ {"preview_video_url"}

BuiltReady ==
    /\ built.results.t = "list"
    /\ Len(built.results.items) > 0
    /\ ~SomeError(built.results)

\* an extraction with empty content and no optional field
EmptyExtraction(e) ==
    /\ IsProcessed(e)
    /\ ~Truthy(e.content)
    /\ \A k \in ExtractedKeys \ {"content"} : ~Truthy(PGet(e, k))

\* C16: when the extraction of a Ready result yields empty content and no
\* optional field, the update is still issued and its payload is exactly
\* {snapshot_id: null}.
C16_EmptyExtractionClearsOnly ==
    (Built /\ BuiltReady /\ EmptyExtraction(BuiltExtraction)) =>
        built.out = [do |-> "update", updates |-> [snapshot_id |-> JNull]]

\* C16 witness: the answer [""] was extracted to empty content, and the update
\* built for it is {snapshot_id: null}.
C16_Witness ==
    /\ Built
    /\ built.results = List(<<Str("")>>)
    /\ EmptyExtraction(BuiltExtraction)
    /\ built.out.do = "update"
    /\ DOMAIN built.out.updates = {"snapshot_id"}

\* the direct call reached the dispatch of lines 100-104
BuiltDispatched ==
    /\ Built
    /\ check_download_for_errors(built.results) = "false"
    /\ ~(built.results.t = "list" /\ Len(built.results.items) = 0)

\* the extractor the claim assigns to a stored URL, applied to a payload
ExtractorFor(url, payload) ==
    IF UrlContains(url, "linkedin.com") THEN extract_linkedin_content(payload)
    ELSE extract_x_content(payload)

\* C17: the platform is a function of the stored URL alone: a URL containing
\* "linkedin.com" is dispatched to the LinkedIn extractor, every other URL to
\* the X extractor, and no other platform tag is ever dispatched.
C17_ClassifiedByUrl ==
    /\ Built => ServiceName(built.url) \in {"x", "linkedin"}
    /\ Built => (ServiceName(built.url) = "linkedin"
                     <=> UrlContains(built.url, "linkedin.com"))
    /\ BuiltDispatched =>
          built.out = ToOutcome(ReadyUpdates(LogProcessed(
                          ExtractorFor(built.url, FirstResult(built.results)))))

\* C17 witness: for a bookmark stored with an Instagram URL the X sample
\* payload went through the X extractor.
C17_Witness ==
    /\ BuiltDispatched
    /\ built.url = InstagramUrl
    /\ built.results = List(<<Obj(PayloadB)>>)
    /\ built.out.do = "update"
    /\ built.out.updates = [snapshot_id |-> JNull, description |-> Str("hi"),
                            preview_image_url |-> Str("img.png"),
                            social_profile_name |-> Str("alice")]

\* a non-empty text
NonEmptyText(v) == v.t = "str" /\ v.s # ""

RECURSIVE FirstNonEmpty(_, _, _, _)
\* the value of the first key of keys, from position i on, under which o holds
\* a non-empty text; fallback when there is none
FirstNonEmpty(o, keys, i, fallback) ==
    IF i > Len(keys) THEN fallback
    ELSE IF keys[i] \in DOMAIN o /\ NonEmptyText(o[keys[i]]) THEN o[keys[i]]
    ELSE FirstNonEmpty(o, keys, i + 1, fallback)

\* the first element of the list under key k; absent when there is no such
\* list or it is empty
FirstElement(o, k) ==
    IF k \in DOMAIN o /\ o[k].t = "list" /\ Len(o[k].items) > 0
    THEN o[k].items[1]
    ELSE JNull

\* process_result was called directly for platform tag on an object whose
\* values have the documented shapes
ExtractedFor(tag) ==
    /\ Extracted
    /\ extraction.service_name = tag
    /\ data.t = "obj"
    /\ ExpectedShape(data.o)

\* C18: for platform X and an object payload, content is the first non-empty
\* of description, text, content in that order, else the payload rendered as
\* text; preview_image_url is the first element of photos when photos is not
\* empty, else absent; social_profile_name is user_posted.
C18_XExtraction ==
    ExtractedFor("x") =>
        /\ IsProcessed(extraction.processed)
        /\ extraction.processed.content =
              FirstNonEmpty(data.o, <<"description", "text", "content">>, 1,
                            [t |-> "repr", of |-> data])
        /\ extraction.processed.preview_image_url = FirstElement(data.o, "photos")
        /\ extraction.processed.social_profile_name =
              (IF "user_posted" \in DOMAIN data.o THEN data.o.user_posted ELSE JNull)

\* C18 witness: an X payload with an empty description, a text and two photos
\* was extracted to the text and the first photo.
C18_Witness ==
    /\ ExtractedFor("x")
    /\ "description" \in DOMAIN data.o /\ data.o.description = Str("")
    /\ "text" \in DOMAIN data.o
    /\ "photos" \in DOMAIN data.o /\ Len(data.o.photos.items) = 2
    /\ "user_posted" \in DOMAIN data.o
    /\ extraction.processed.content = Str("t")
    /\ extraction.processed.preview_image_url = Str("a.png")
    /\ extraction.processed.social_profile_name = Str("alice")

\* the preview video the claim assigns to an X payload
VideoOf(o) ==
    IF FirstElement(o, "photos") \notin {JNull, Str("")} THEN JNull
    ELSE IF FirstElement(o, "videos") = JNull THEN JNull
    ELSE IF FirstElement(o, "videos").t = "str" THEN FirstElement(o, "videos")
    ELSE IF "video_url" \in DOMAIN FirstElement(o, "videos").o
         THEN FirstElement(o, "videos").o.video_url
    ELSE JNull

\* the elements of videos are URL strings or objects
VideoShape(o) ==
    "videos" \in DOMAIN o /\ o.videos.t = "list" =>
        \A i \in 1..Len(o.videos.items) : o.videos.items[i].t \in {"str", "obj"}

\* C19: for platform X, preview_video_url is set only when no photo was
\* extracted; it is then the first element of videos when that is a bare URL
\* string, its video_url field when it is an object, and absent when the
\* object lacks video_url or videos is empty or missing.
C19_XVideo ==
    (ExtractedFor("x") /\ VideoShape(data.o)) =>
        /\ IsProcessed(extraction.processed)
        /\ extraction.processed.preview_video_url = VideoOf(data.o)
        /\ Truthy(extraction.processed.preview_video_url)
              => ~Truthy(extraction.processed.preview_image_url)

\* C19 witness: a payload without photos whose first video is an object gave
\* that object's video_url.
C19_Witness ==
    /\ ExtractedFor("x")
    /\ data = Obj(PayloadV)
    /\ extraction.processed.preview_image_url = JNull
    /\ extraction.processed.preview_video_url = Str("v.mp4")

\* C20: for platform LinkedIn and an object payload, content is the first
\* non-empty of post_text, text, title, headline in that order, else the
\* payload rendered as text; preview_image_url is the first element of images
\* when not empty, else absent; social_profile_name is user_id; no preview
\* video is produced, and none is sent for a LinkedIn URL.
C20_LinkedInExtraction ==
    /\ ExtractedFor("linkedin") =>
          /\ IsProcessed(extraction.processed)
          /\ extraction.processed.content =
                FirstNonEmpty(data.o, <<"post_text", "text", "title", "headline">>,
                              1, [t |-> "repr", of |-> data])
          /\ extraction.processed.preview_image_url = FirstElement(data.o, "images")
          /\ extraction.processed.social_profile_name =
                (IF "user_id" \in DOMAIN data.o THEN data.o.user_id ELSE JNull)
          /\ PGet(extraction.processed, "preview_video_url") = JNull
    /\ (Sent /\ UrlContains(built.url, "linkedin.com")) =>
          "preview_video_url" \notin DOMAIN built.out.updates

\* C20 witness: a LinkedIn payload with an empty post_text, a title, a
\* headline and an image was extracted to the title and the image.
C20_Witness ==
    /\ ExtractedFor("linkedin")
    /\ "post_text" \in DOMAIN data.o /\ data.o.post_text = Str("")
    /\ "text" \notin DOMAIN data.o
    /\ "headline" \in DOMAIN data.o /\ data.o.headline = Str("h")
    /\ "user_id" \in DOMAIN data.o
    /\ extraction.processed.content = Str("ti")
    /\ extraction.processed.preview_image_url = Str("pic.jpg")
    /\ extraction.processed.social_profile_name = Str("bob")

\* the bookmark is reconciled: no handle, and content on the record
Reconciled(id) ==
    /\ store[id].snapshot_id = JNull
    /\ store[id].description # JNull
    /\ id \in cleared

\* once a bookmark is cleared no step fetches the provider for it, sends an
\* update to it or changes it
C13_NotReprocessed ==
    \A id \in cleared :
        /\ Len(calls'["w1"]) > Len(calls["w1"])
              => calls'["w1"][Len(calls'["w1"])].id # id
        /\ store'[id] = store[id]

\* C13: a single worker polls in continuous mode; once the provider answers
\* 200 with content and the store's list and update calls succeed, every
\* bookmark that holds a handle is eventually reconciled (content written,
\* handle cleared) and stays so, and it is not processed again.
C13_EventualReconciliation ==
    /\ \A id \in BookmarkIds :
          (stable /\ Truthy(store[id].snapshot_id)) ~> []Reconciled(id)
    /\ [][C13_NotReprocessed]_vars

\* C13 witness: the first cycle left b1 pending; then the provider and the
\* store came to answer well, and the second cycle, still under way, has
\* written the content of b1 and cleared its handle.
C13_Witness ==
    /\ stable
    /\ iteration["w1"] = 2
    /\ pc["w1"] = "loop"
    /\ prev["b1"] = "pending"
    /\ Truthy(snap["b1"].snapshot_id)
    /\ outcomes["b1"] = "done"
    /\ Reconciled("b1")

---------------------------------------------------------------------------
(* C25: an Instagram result *)

\* C25: process_result(payload, "instagram") returns a record with the keys
\* content, preview_image_url and social_profile_name whose content is not
\* empty and whose social_profile_name is not None.
C25_InstagramProcessed ==
    (Extracted /\ extraction.service_name = "instagram" /\ data.t = "obj") =>
        /\ IsProcessed(extraction.processed)
        /\ {"content", "preview_image_url", "social_profile_name"}
               \subseteq DOMAIN extraction.processed
        /\ extraction.processed.content # Str("")
        /\ extraction.processed.content # JNull
        /\ extraction.processed.social_profile_name # JNull

---------------------------------------------------------------------------
(* C26: the value process_snapshot_for_bookmark returns *)

\* C26: for every provider outcome (202, 200 with content, 200 with an error,
\* another status, no response) process_snapshot_for_bookmark returns True or
\* False; it returns no other value and does not raise.
C26_ReturnsBoolean ==
    Handled => last.ret \in {"True", "False"}

---------------------------------------------------------------------------
(* C29: the reconciler only clears handles *)

\* the bookmarks whose handle is outstanding in the rows s
Outstanding(s) == { id \in BookmarkIds : s[id].snapshot_id # JNull }

\* a step leaves every handle as it is or clears it
C29_HandleStep ==
    /\ \A id \in BookmarkIds :
          store'[id].snapshot_id \in {store[id].snapshot_id, JNull}
    /\ Outstanding(store') \subseteq Outstanding(store)

\* every update payload sent carries snapshot_id = null
C29_PayloadClears ==
    (Handled /\ last.updates # NoUpdate) =>
        /\ "snapshot_id" \in DOMAIN last.updates
        /\ last.updates.snapshot_id = JNull

\* C29: the reconciler never attaches or changes a handle: every update
\* payload it sends has snapshot_id = null, so under the reconciler's steps
\* alone the set of bookmarks with an outstanding handle only shrinks and no
\* bookmark comes to hold another handle.
C29_NeverAttaches == [][C29_HandleStep]_vars /\ []C29_PayloadClears

\* C29 witness: an update cleared the handle of the first bookmark while the
\* second bookmark's handle is still outstanding.
C29_Witness ==
    /\ Handled
    /\ last.id = "b1"
    /\ last.wrote
    /\ last.held = FirstHandle("b1")
    /\ last.updates.snapshot_id = JNull
    /\ Outstanding(store) = {"b2"}
    /\ Outstanding(snap) = {"b1", "b2"}

---------------------------------------------------------------------------
(* C30: only the first element of a Ready array is used *)

\* the direct call was made on an array of several provider records, none of
\* which has an `error` field
BuiltFromSeveral ==
    /\ Built
    /\ BuiltReady
    /\ Len(built.results.items) > 1
    /\ \A i \in 1..Len(built.results.items) : built.results.items[i].t = "obj"

\* C30: when a Ready (error-free) provider array has several elements, the
\* update payload is the one built from element 0 alone, whatever the
\* remaining elements are.
C30_FirstElementOnly ==
    BuiltFromSeveral =>
        built.out = Outcome([kind |-> "http", status |-> 200,
                             body |-> List(<<built.results.items[1]>>)],
                            built.url)

\* C30 witness: the array holds the X sample followed by two other records and
\* the payload sent is the one of the X sample.
C30_Witness ==
    /\ BuiltFromSeveral
    /\ built.url = XUrl
    /\ built.results = List(<<Obj(PayloadB), Obj(PayloadV), Obj(PayloadC)>>)
    /\ Sent
    /\ built.out.updates = [snapshot_id |-> JNull,
                            description |-> Str("hi"),
                            preview_image_url |-> Str("img.png"),
                            social_profile_name |-> Str("alice")]

---------------------------------------------------------------------------
(* C24: one cycle is one listing and a sequential pass over it *)

\* the ids of the entries of a call log or of a listing
Ids(seq) == [i \in 1..Len(seq) |-> seq[i].id]

IsFetch(c) == c.op = "fetch"

HasHandle(bm) == Truthy(bm.snapshot_id)

IsPrefix(s, t) == Len(s) <= Len(t) /\ s = SubSeq(t, 1, Len(s))

\* the cycle of the worker has returned after a listing that succeeded
CycleReturned == CycleDone("w1") /\ cycleRet["w1"] = "returned"

\* the listing is read once, as the first call of the cycle
C24_ListedOnce ==
    \A i \in 1..Len(calls["w1"]) : (calls["w1"][i].op = "list") <=> (i = 1)

\* an update directly follows the fetch for the same bookmark, so each fetch
\* has at most one update and both precede the next fetch
C24_UpdateFollowsFetch ==
    \A i \in 1..Len(calls["w1"]) :
        calls["w1"][i].op = "update" =>
            /\ i > 1
            /\ calls["w1"][i - 1] = [op |-> "fetch", id |-> calls["w1"][i].id]

\* the provider is fetched once for each listed bookmark that has a non-empty
\* handle, in listing order
C24_FetchedInOrder ==
    /\ IsPrefix(Ids(SelectSeq(calls["w1"], IsFetch)),
                Ids(SelectSeq(bookmarks["w1"], HasHandle)))
    /\ CycleReturned =>
          Ids(SelectSeq(calls["w1"], IsFetch))
              = Ids(SelectSeq(bookmarks["w1"], HasHandle))

\* C24 (as stated): within one cycle the pending list is read once and for
\* each listed bookmark exactly one provider fetch and at most one store
\* update are issued, bookmark by bookmark in listing order.
C24_OneFetchPerListed ==
    /\ C24_ListedOnce
    /\ C24_UpdateFollowsFetch
    /\ CycleReturned =>
          Ids(SelectSeq(calls["w1"], IsFetch)) = Ids(bookmarks["w1"])

\* C24 (amended): within one cycle the pending list is read once and the
\* bookmarks are processed in listing order; a listed bookmark whose handle is
\* the empty string is skipped without a fetch, every other listed bookmark
\* gets exactly one fetch and at most one update, and its fetch and update
\* come before the next bookmark's fetch.
C24_OneFetchPerHandle ==
    /\ C24_ListedOnce
    /\ C24_UpdateFollowsFetch
    /\ C24_FetchedInOrder

\* C24 witness: a cycle listed two bookmarks, skipped the one whose handle is
\* the empty string and fetched and updated the other.
C24_Witness ==
    /\ CycleReturned
    /\ Len(bookmarks["w1"]) = 2
    /\ bookmarks["w1"][1].snapshot_id = Str("")
    /\ calls["w1"] = << [op |-> "list", id |-> "ok"],
                        [op |-> "fetch", id |-> "b1"],
                        [op |-> "update", id |-> "b1"] >>

---------------------------------------------------------------------------
(* C21: the clock of the bounded mode *)

\* the smaller of two numbers
Min(a, b) == IF a <= b THEN a ELSE b

\* the worker runs in bounded mode
Bounded == sched.mode = "bounded"

\* a cycle is started only below the ceiling
C21_StartStep ==
    (Bounded /\ sched.at = "top" /\ sched'.at = "cycle") =>
        sched.proc_runtime_in_secs < sched.MAX_PROC_RUNTIME_IN_SECONDS

\* what the step after a cycle does to the clock s, which stood at `before`
\* when the sleep was decided
C21_Accounted(before, s) ==
    /\ ~s.slept => s.proc_runtime_in_secs = before
    /\ s.slept =>
          /\ before < s.MAX_PROC_RUNTIME_IN_SECONDS
          /\ s.sleep_time =
                Min(s.poll_interval, s.MAX_PROC_RUNTIME_IN_SECONDS - before)
          /\ s.proc_runtime_in_secs = before + s.sleep_time
          /\ s.proc_runtime_in_secs <= s.MAX_PROC_RUNTIME_IN_SECONDS
          /\ (s.MAX_PROC_RUNTIME_IN_SECONDS - before < s.poll_interval) =>
                s.proc_runtime_in_secs = s.MAX_PROC_RUNTIME_IN_SECONDS

\* the time of the cycle and of the sleep is added to the clock
C21_SleepStep ==
    (Bounded /\ sched.at = "cycle" /\ sched'.at # "cycle") =>
        /\ sched'.elapsed > 0
        /\ C21_Accounted(sched.proc_runtime_in_secs + sched'.elapsed, sched')

\* once the clock has reached the ceiling no cycle is running or started
C21_NoCycleAtCeiling ==
    (Bounded /\ sched.at = "top" /\ sched.slept
       /\ sched.proc_runtime_in_secs = sched.MAX_PROC_RUNTIME_IN_SECONDS) =>
        sched'.at \in {"top", "exited"}

\* C21: in bounded mode the time of cycles and sleeps is accumulated; a cycle
\* is started only while the accumulated time is strictly below the ceiling;
\* every sleep lasts min(poll_interval, ceiling - accumulated), so no sleep
\* takes the accumulated time past the ceiling, and a sleep cut short by the
\* ceiling ends exactly on it, after which no cycle is issued.
C21_BoundedClock ==
    /\ [][C21_StartStep]_vars
    /\ [][C21_SleepStep]_vars
    /\ [][C21_NoCycleAtCeiling]_vars

\* C21 witness: with ceiling 3 and interval 2 the last sleep was cut to one
\* tick, the clock stands on the ceiling and main has left the loop.
C21_Witness ==
    /\ Bounded
    /\ sched.MAX_PROC_RUNTIME_IN_SECONDS = 3
    /\ sched.poll_interval = 2
    /\ sched.slept
    /\ sched.sleep_time = 1
    /\ sched.proc_runtime_in_secs = 3
    /\ sched.at = "exited"

---------------------------------------------------------------------------
(* C22: an exception of the cycle does not end the scheduler loop *)

\* poll_snapshots_once has just raised an Exception to the scheduler
CycleRaised ==
    /\ sched.mode \in {"continuous", "bounded"}
    /\ sched.at = "cycle"
    /\ pc["w1"] = "idle"
    /\ cycleRet["w1"] = "raised"

\* the scheduler has a poll interval that time.sleep accepts
ValidInterval == sched.poll_interval >= 0

\* the step after a cycle that raised: the loop sleeps as after any cycle
C22_CaughtStep ==
    (CycleRaised /\ ValidInterval /\ sched' # sched) =>
        /\ sched'.caught
        /\ sched.mode = "continuous" => sched'.at = "sleep"
        /\ sched.mode = "bounded" =>
              /\ sched'.at = "top"
              /\ C21_Accounted(sched.proc_runtime_in_secs + sched'.elapsed,
                               sched')
              /\ sched'.slept <=>
                    (sched.proc_runtime_in_secs + sched'.elapsed
                        < sched.MAX_PROC_RUNTIME_IN_SECONDS)
        /\ UNCHANGED <<store, pc, cycleRet>>

\* the loop is left only by the maximum, the ceiling or an interrupt
C22_LoopLeft ==
    (ValidInterval /\ sched.mode # "-") =>
        /\ sched.at # "crashed" \/ sched.interrupted
        /\ sched.at = "stopped" =>
              \/ sched.interrupted
              \/ ReachedMax(sched.max_iterations, iteration["w1"])
        /\ sched.at = "exited" =>
              sched.proc_runtime_in_secs >= sched.MAX_PROC_RUNTIME_IN_SECONDS

\* C22: an exception raised by a cycle never ends the scheduler loop in
\* either mode: it is caught, the scheduler sleeps the interval and comes
\* back to the head of the loop, where the next cycle is run unless the
\* maximum of iterations, the ceiling or an interrupt ends the loop.
C22_CycleExceptionCaught ==
    /\ [][C22_CaughtStep]_vars
    /\ []C22_LoopLeft
    /\ (CycleRaised /\ ValidInterval) ~> (sched.at = "top" \/ sched.interrupted)
    /\ (sched.at = "top" /\ sched.caught)
          ~> (sched.at \in {"cycle", "stopped", "exited"})

\* C22 witness: a cycle raised, the exception was caught, and a later cycle
\* has listed the bookmarks and fetched the provider.
C22_Witness ==
    /\ sched.mode = "continuous"
    /\ sched.caught
    /\ ~sched.interrupted
    /\ sched.at = "cycle"
    /\ pc["w1"] = "fetched"
    /\ calls["w1"][1] = [op |-> "list", id |-> "ok"]

---------------------------------------------------------------------------
(* C23: an interrupt in continuous mode *)

\* every listed bookmark with a handle was fetched and its processing ended
CycleDrained ==
    /\ Ids(SelectSeq(calls["w1"], IsFetch))
          = Ids(SelectSeq(bookmarks["w1"], HasHandle))
    /\ \A i \in 1..Len(bookmarks["w1"]) :
          HasHandle(bookmarks["w1"][i]) => outcomes[bookmarks["w1"][i].id] # "-"

\* C23: in continuous mode an interrupt ends the loop only after the cycle in
\* progress has finished: every listed bookmark of that cycle is still
\* processed, no item is cut off, and no new cycle starts after the interrupt.
C23_InterruptAfterCycle ==
    (sched.mode = "continuous" /\ sched.interrupted) =>
        /\ sched.at \in {"stopped", "crashed"}
        /\ pc["w1"] = "idle"
        /\ CycleDrained

---------------------------------------------------------------------------
(* C27: how long the continuous mode runs *)

\* poll_snapshots runs with a poll interval that time.sleep accepts
Continuous == sched.mode = "continuous" /\ ValidInterval

\* the loop has ended
Ended == sched.at \in {"stopped", "crashed"}

\* without an interrupt the loop ends only at the maximum, after exactly that
\* many cycles
C27_EndsAtMaximum ==
    (Continuous /\ Ended /\ ~sched.interrupted) =>
        /\ sched.at = "stopped"
        /\ Truthy(sched.max_iterations)
        /\ sched.cycles = sched.max_iterations.n
        /\ iteration["w1"] = sched.max_iterations.n + 1

\* never more cycles than the maximum
C27_AtMostMaximum ==
    (Continuous /\ Truthy(sched.max_iterations)) =>
        sched.cycles <= sched.max_iterations.n

\* C27: poll_snapshots(max_iterations=N) with N >= 1 and no interrupt runs
\* exactly N cycles (N calls of the listing) and then returns; with
\* max_iterations=None the loop does not stop by itself: it ends only on an
\* interrupt and until then every sleep is followed by another cycle.
C27_RunsMaxIterations ==
    /\ []C27_EndsAtMaximum
    /\ []C27_AtMostMaximum
    /\ (Continuous /\ Truthy(sched.max_iterations))
          ~> (sched.at = "stopped" \/ sched.interrupted)
    /\ (Continuous /\ sched.max_iterations = JNull /\ sched.at = "sleep")
          ~> (sched.at = "cycle" \/ sched.interrupted)

\* C27 witness: with max_iterations=2 and no interrupt the loop has stopped
\* after two cycles.
C27_Witness ==
    /\ Continuous
    /\ sched.max_iterations = Num(2)
    /\ ~sched.interrupted
    /\ sched.at = "stopped"
    /\ sched.cycles = 2
    /\ Len(calls["w1"]) > 1

---------------------------------------------------------------------------
(* C28: the bounded mode terminates *)

\* C28: for every ceiling and every poll interval, with cycles that each
\* terminate, the bounded loop of main ends after finitely many passes and
\* main exits with the accumulated runtime at or above the ceiling.
C28_MainExits ==
    Bounded ~> (/\ sched.at = "exited"
                /\ sched.proc_runtime_in_secs
                      >= sched.MAX_PROC_RUNTIME_IN_SECONDS)

\* the same for the poll intervals that time.sleep accepts
C28_MainExitsValidInterval ==
    (Bounded /\ ValidInterval)
        ~> (/\ sched.at = "exited"
            /\ sched.proc_runtime_in_secs
                  >= sched.MAX_PROC_RUNTIME_IN_SECONDS)

---------------------------------------------------------------------------
(* C31: several erroring elements *)

\* the direct call was made on an array of provider records of which at least
\* two have an `error` field
BuiltFromSeveralErrors ==
    /\ Built
    /\ built.results.t = "list"
    /\ \A i \in 1..Len(built.results.items) : built.results.items[i].t = "obj"
    /\ Cardinality({ i \in 1..Len(built.results.items) :
                       CarriesError(built.results.items[i]) }) > 1

\* the position of the last element of items that has an `error` field
LastErroring(items) ==
    CHOOSE i \in 1..Len(items) :
        /\ CarriesError(items[i])
        /\ \A j \in (i + 1)..Len(items) : ~CarriesError(items[j])

\* C31: when several elements of a 200 answer carry an `error` field, the
\* payload holds one scrape_error, the message of the last erroring element
\* in array order, and nothing else beside snapshot_id: the error-free
\* elements of the array add nothing.
C31_LastErrorPersisted ==
    BuiltFromSeveralErrors =>
        /\ Sent
        /\ built.out.updates =
              [snapshot_id |-> JNull,
               scrape_error |->
                   built.results.items[LastErroring(built.results.items)]
                       .o.error]

\* C31 witness: the array holds "blocked", "timeout" and a record with
\* content, and the payload sent carries "timeout" alone.
C31_Witness ==
    /\ BuiltFromSeveralErrors
    /\ built.results = List(<<Obj(PayloadD), Obj(PayloadE), Obj(PayloadB)>>)
    /\ Sent
    /\ built.out.updates = [snapshot_id |-> JNull,
                            scrape_error |-> Str("timeout")]

---------------------------------------------------------------------------
(* C32: fields that never meet in one payload *)

\* C32: no update payload holds preview_image_url and preview_video_url
\* together; no payload built for a URL that contains the LinkedIn marker
\* holds preview_video_url; no payload holds scrape_error together with
\* description, preview_image_url, preview_video_url or social_profile_name.
C32_ExclusiveFields ==
    Sent =>
        /\ ~({"preview_image_url", "preview_video_url"}
                \subseteq DOMAIN built.out.updates)
        /\ UrlContains(built.url, "linkedin.com")
              => "preview_video_url" \notin DOMAIN built.out.updates
        /\ "scrape_error" \in DOMAIN built.out.updates
              => DOMAIN built.out.updates \cap ContentKeys = {}

\* C32 witness: a record with both a photo and a video was sent for an X
\* address with the photo alone.
C32_Witness ==
    /\ Sent
    /\ built.url = XUrl
    /\ built.results.t = "list"
    /\ built.results.items[1].t = "obj"
    /\ {"photos", "videos"} \subseteq DOMAIN built.results.items[1].o
    /\ Truthy(built.results.items[1].o.videos)
    /\ "preview_image_url" \in DOMAIN built.out.updates
    /\ "preview_video_url" \notin DOMAIN built.out.updates

\* the other two cases of C32 occur as well: a payload built for a LinkedIn
\* address that holds an error and nothing else beside the cleared handle
C32_ErrorAloneReached ==
    /\ Sent
    /\ built.url = LinkedInUrl
    /\ DOMAIN built.out.updates = {"snapshot_id", "scrape_error"}

---------------------------------------------------------------------------
(* C33: the listing fails *)

\* the log of a cycle whose listing failed and that called nothing else
FailedListing == << [op |-> "list", id |-> "error"] >>

\* the log of the cycle of w starts with a listing that failed
ListingFailed(log) == Len(log) > 0 /\ log[1] = FailedListing[1]

\* C33: when the call that lists the pending bookmarks fails,
\* get_bookmarks_with_snapshots returns an empty list and does not raise: the
\* cycle returns at once, its log holds no provider fetch and no store update,
\* and the step leaves every bookmark as it was.
C33_FailedListingIsEmptyCycle ==
    [][\A w \in Workers :
          ListingFailed(calls'[w]) =>
              /\ calls'[w] = FailedListing
              /\ bookmarks'[w] = <<>>
              /\ cycleRet'[w] = "returned"
              /\ pc'[w] = "idle"
              /\ store' = store]_vars

\* C33 witness: the listing failed while bookmark b1 had a handle pending;
\* the cycle returned with nothing fetched and b1 still holds its handle.
C33_Witness ==
    /\ calls["w1"] = FailedListing
    /\ cycleRet["w1"] = "returned"
    /\ iteration["w1"] > 0
    /\ ListFilter(store["b1"])
    /\ HasHandle(store["b1"])
    /\ store = snap

---------------------------------------------------------------------------
(* C34: the PATCH matches no bookmark *)

\* worker w sends an update that the store accepts while the bookmark is no
\* longer in the table
UnmatchedUpdateStep(w) ==
    /\ ProcessStep(w)
    /\ last'.updates # NoUpdate
    /\ last'.patch = "ok"
    /\ ~Matched(store, Current(w).id)

\* C34: when the PATCH succeeds but matches no bookmark (the representation
\* that comes back is empty), update_bookmark returns None and
\* process_snapshot_for_bookmark returns False: no bookmark is modified and no
\* exception leaves the call, so the loop goes on to the next bookmark.
C34_UnmatchedUpdateFails ==
    [][\A w \in Workers :
          UnmatchedUpdateStep(w) =>
              /\ last'.id = Current(w).id
              /\ last'.ret = "False"
              /\ last'.exc = "-"
              /\ ~last'.wrote
              /\ store' = store
              /\ cycleRet'[w] # "raised"
              /\ Current(w).id \notin cleared']_vars

\* C34 witness: b1 was listed with its handle and deleted before its update
\* was sent; the update was accepted, it changed nothing, and False came back.
C34_Witness ==
    /\ last # NoItem
    /\ last.id = "b1"
    /\ last.handle = FirstHandle("b1")
    /\ last.updates # NoUpdate
    /\ last.patch = "ok"
    /\ last.ret = "False"
    /\ ~last.wrote
    /\ store["b1"] = NoRow
    /\ Present(snap["b1"])

====
